---- MODULE Spec2Model ----
(***************************************************************************)
(* A model of pycid's MACIDBase / MACID / MechanismGraph                   *)
(* (src/core/macid_base.py, src/core/macid.py).                            *)
(*                                                                         *)
(* A diagram object is a record                                            *)
(*   class                         "MACIDBase" or its subclass "MACID"     *)
(*   nodes, edges                  the networkx DiGraph                    *)
(*   decision_nodes_agent          agent -> list of decision nodes         *)
(*   utility_nodes_agent           agent -> list of utility nodes          *)
(*   whose_node                    node -> agent (partial)                 *)
(*   cpds                          node -> installed CPD (partial)         *)
(*   cpds_to_add                   node -> pending CPD (partial)           *)
(* A CPD object is a record                                                *)
(*   variable, kind                "FunctionCPD" | "UniformRandomCPD" |    *)
(*                                 "DecisionDomain"                        *)
(*   evidence                      declared parents (FunctionCPD)          *)
(*   function                      the function, as the table of its       *)
(*                                 outputs (FunctionCPD)                   *)
(*   state_names                   list of the variable's values           *)
(*   values                        TRUE iff the tabular CPD is initialized *)
(*                                 (hasattr(cpd, "values"))                *)
(*   variables                     parents the initialized table is over   *)
(*                                 (cpd.variables[1:])                     *)
(*   evidence_names                the state names of those parents that   *)
(*                                 the initialized table is computed over  *)
(*                                 (cpd.state_names[p], p a parent)        *)
(* Methods are operators from a diagram (and arguments) to an outcome      *)
(* record [self, raised, value]: the diagram as the call leaves it,        *)
(* whether the call raised, and the returned value.                        *)
(***************************************************************************)
EXTENDS Integers, Sequences, FiniteSets, TLC

VARIABLES
    cid,          \* the caller's diagram object
    call,         \* the last call made on it: [op, args]
    ret,          \* its outcome: [raised, value]
    ops,          \* number of calls made so far
    edgeChanged,  \* history: nodes whose incoming edges changed since a CPD was last supplied for them
    supplied      \* history kept under SpecAdd: node -> the CPD add_cpds most recently stored for it

vars == <<cid, call, ret, ops, edgeChanged, supplied>>

-----------------------------------------------------------------------------
(* Bounds *)

\* calls made on one diagram
MaxOps == 2

\* CPDs given to one add_cpds call
MaxCpds == 2

\* add_cpds calls made on one diagram of SpecAdd
MaxAdds == 3

-----------------------------------------------------------------------------
(* Generic helpers *)

Range(s) == {s[i] : i \in DOMAIN s}

\* a partial map with key k (re)bound to v
Put(f, k, v) == (k :> v) @@ f

\* a partial map without key k
Del(f, k) == [x \in (DOMAIN f) \ {k} |-> f[x]]

\* the lists (without repetition) over a set, of length <= n
RECURSIVE ListsUpTo(_, _)
ListsUpTo(S, n) ==
    IF n = 0 THEN {<<>>}
    ELSE LET shorter == ListsUpTo(S, n - 1)
         IN shorter \cup {Append(l, x) : l \in shorter, x \in S}

-----------------------------------------------------------------------------
(* The graph (networkx.DiGraph / pgmpy.BayesianModel) *)

get_parents(self, v) == {u \in self.nodes : <<u, v>> \in self.edges}

get_children(self, v) == {w \in self.nodes : <<v, w>> \in self.edges}

\* nodes reachable from the set S along directed edges (S included)
RECURSIVE ReachableFrom(_, _)
ReachableFrom(self, S) ==
    LET next == S \cup {w \in self.nodes : \E v \in S : <<v, w>> \in self.edges}
    IN IF next = S THEN S ELSE ReachableFrom(self, next)

\* nx.descendants(G, v): reachable from v, v excluded
descendants(self, v) == ReachableFrom(self, get_children(self, v)) \ {v}

\* nx.ancestors for a set: nodes with a directed path into S (S included)
RECURSIVE AncestorsOf(_, _)
AncestorsOf(self, S) ==
    LET next == S \cup {u \in self.nodes : \E v \in S : <<u, v>> \in self.edges}
    IN IF next = S THEN S ELSE AncestorsOf(self, next)

\* an edge set over a node set is acyclic
IsDag(N, E) ==
    LET g == [nodes |-> N, edges |-> E]
    IN \A v \in N : v \notin ReachableFrom(g, get_children(g, v))

\* NextInTopologicalOrder listing the nodes from the leaves on
NextInTopologicalOrder_Reversed(self, todo) ==
    CHOOSE v \in todo : \A w \in todo : v \notin get_parents(self, w)

\* nx.topological_sort restricted to the nodes of `todo`: the first node of
\* the remaining order is one with no parent left in `todo`
NextInTopologicalOrder(self, todo) ==
    CHOOSE v \in todo : get_parents(self, v) \cap todo = {}

-----------------------------------------------------------------------------
(* Properties of MACIDBase *)

agents(self) == DOMAIN self.decision_nodes_agent

all_decision_nodes(self) ==
    UNION {Range(self.decision_nodes_agent[a]) : a \in agents(self)}

all_utility_nodes(self) ==
    UNION {Range(self.utility_nodes_agent[a]) : a \in agents(self)}

\* BayesianModel.get_cpds(node), for a node of the graph
HasCpd(self, v) == v \in DOMAIN self.cpds

-----------------------------------------------------------------------------
(* CPD objects (core/cpd.py) *)

\* every node name a diagram of the model may hold, in a fixed order (the
\* order in which lists of nodes are written)
NodeOrder ==
    <<"S1", "S2", "A", "B", "D1", "D2", "U", "U1", "U2", "X", "temp_par",
      "Amec", "mecano", "mecmec">>

AsList(S) == SelectSeq(NodeOrder, LAMBDA x : x \in S)

FunctionCPD(variable, function, evidence, state_names) ==
    [variable |-> variable, kind |-> "FunctionCPD", evidence |-> evidence,
     function |-> function, state_names |-> state_names,
     values |-> FALSE, variables |-> <<>>, evidence_names |-> <<>>]

UniformRandomCPD(variable, state_names) ==
    [variable |-> variable, kind |-> "UniformRandomCPD", evidence |-> <<>>,
     function |-> <<>>, state_names |-> state_names,
     values |-> FALSE, variables |-> <<>>, evidence_names |-> <<>>]

DecisionDomain(variable, state_names) ==
    [variable |-> variable, kind |-> "DecisionDomain", evidence |-> <<>>,
     function |-> <<>>, state_names |-> state_names,
     values |-> FALSE, variables |-> <<>>, evidence_names |-> <<>>]

\* isinstance(cpd, FunctionCPD)
IsFunctionCPD(cpd) == cpd.kind = "FunctionCPD"

\* isinstance(cpd, DecisionDomain)
IsDecisionDomain(cpd) == cpd.kind = "DecisionDomain"

\* isinstance(cpd, UniformRandomCPD): a DecisionDomain is the default
\* (uniform) policy of a decision and is a UniformRandomCPD too
IsUniformRandomCPD(cpd) == cpd.kind \in {"UniformRandomCPD", "DecisionDomain"}

\* cpd.copy(): the same CPD, not yet initialized
CopyCpd(cpd) ==
    [cpd EXCEPT !.values = FALSE, !.variables = <<>>, !.evidence_names = <<>>]

\* the parents a CPD's table is computed over: the declared evidence of a
\* FunctionCPD, the graph parents otherwise
TableParents(cpd, self) ==
    IF IsFunctionCPD(cpd) THEN cpd.evidence
    ELSE AsList(get_parents(self, cpd.variable))

\* cpd.initialize_tabular_cpd(cid): the table is (re)computed over the parents
\* when each of them has an installed CPD; otherwise the CPD is left as it is
initialize_tabular_cpd(cpd, self) ==
    IF \A p \in Range(TableParents(cpd, self)) : HasCpd(self, p)
    THEN [cpd EXCEPT !.values = TRUE, !.variables = TableParents(cpd, self),
                     !.evidence_names =
                         [i \in DOMAIN TableParents(cpd, self) |->
                             self.cpds[TableParents(cpd, self)[i]].state_names]]
    ELSE cpd

-----------------------------------------------------------------------------
(* MACIDBase.__init__ *)

Outcome(self, raised, value) == [self |-> self, raised |-> raised, value |-> value]

\* node_types: agent -> [D |-> list of decisions, U |-> list of utilities]
MACIDBase(edges, node_types) ==
    LET nodes == {e[1] : e \in edges} \cup {e[2] : e \in edges}
        dna == [i \in DOMAIN node_types |-> node_types[i].D]
        una == [i \in DOMAIN node_types |-> node_types[i].U]
        owned == UNION {Range(dna[i]) \cup Range(una[i]) : i \in DOMAIN node_types}
        \* later agents and, within an agent, utility lists overwrite
        owner(n) == CHOOSE a \in DOMAIN node_types :
                        /\ n \in Range(dna[a]) \cup Range(una[a])
                        /\ \A b \in DOMAIN node_types :
                              n \in Range(dna[b]) \cup Range(una[b]) => b <= a
        self == [class |-> "MACIDBase", nodes |-> nodes, edges |-> edges,
                 decision_nodes_agent |-> dna, utility_nodes_agent |-> una,
                 whose_node |-> [n \in owned |-> owner(n)],
                 cpds |-> <<>>, cpds_to_add |-> <<>>]
    IN Outcome(self, ~(owned \subseteq nodes), "None")

-----------------------------------------------------------------------------
(* MACIDBase.add_cpds *)

\* RejectsCpd without the comparison of evidence and graph parents
RejectsCpd_NoEvidenceCheck(self, cpd) ==
    \/ cpd.variable \notin self.nodes
    \/ IsDecisionDomain(cpd) /\ cpd.variable \notin all_decision_nodes(self)

\* RejectsCpd accepting an evidence list that names some of the parents only
RejectsCpd_SubsetCheck(self, cpd) ==
    \/ cpd.variable \notin self.nodes
    \/ IsDecisionDomain(cpd) /\ cpd.variable \notin all_decision_nodes(self)
    \/ IsFunctionCPD(cpd) /\ ~(Range(cpd.evidence) \subseteq get_parents(self, cpd.variable))

\* lines 98-104: the checks on one given CPD; TRUE when it is rejected
RejectsCpd(self, cpd) ==
    \/ cpd.variable \notin self.nodes
    \/ IsDecisionDomain(cpd) /\ cpd.variable \notin all_decision_nodes(self)
    \/ IsFunctionCPD(cpd) /\ Range(cpd.evidence) # get_parents(self, cpd.variable)

\* lines 97-105: each CPD is checked and stored in cpds_to_add, in order
RECURSIVE StoreCpds(_, _)
StoreCpds(self, cpds) ==
    IF cpds = <<>> THEN Outcome(self, FALSE, "None")
    ELSE IF RejectsCpd(self, Head(cpds)) THEN Outcome(self, TRUE, "None")
    ELSE StoreCpds([self EXCEPT !.cpds_to_add =
                        Put(@, Head(cpds).variable, Head(cpds))],
                   Tail(cpds))

\* Requeued re-queuing no descendant
Requeued_None(self, var, cpd_to_add) == {}

\* lines 116-120: descendants to re-queue when var's state names change
Requeued(self, var, cpd_to_add) ==
    IF HasCpd(self, var) /\ self.cpds[var].state_names # cpd_to_add.state_names
    THEN {d \in descendants(self, var) :
             d \notin DOMAIN self.cpds_to_add /\ HasCpd(self, d)}
    ELSE {}

\* lines 110-123: one node of the topological order
InstallStep(self, var) ==
    IF var \notin DOMAIN self.cpds_to_add THEN self
    ELSE LET cpd_to_add == initialize_tabular_cpd(self.cpds_to_add[var], self)
         IN IF cpd_to_add.values
            THEN LET requeue == Requeued(self, var, cpd_to_add)
                     pending == [d \in requeue |-> self.cpds[d]] @@ self.cpds_to_add
                 IN [self EXCEPT !.cpds = Put(@, var, cpd_to_add),
                                 !.cpds_to_add = Del(pending, var)]
            ELSE [self EXCEPT !.cpds_to_add = Put(@, var, cpd_to_add)]

\* lines 109-123: the nodes of `todo` in topological order
RECURSIVE InstallLoop(_, _)
InstallLoop(self, todo) ==
    IF todo = {} THEN self
    ELSE LET var == NextInTopologicalOrder(self, todo)
         IN InstallLoop(InstallStep(self, var), todo \ {var})

add_cpds(self, cpds) ==
    LET stored == StoreCpds(self, cpds)
    IN IF stored.raised THEN stored
       ELSE Outcome(InstallLoop(stored.self, stored.self.nodes), FALSE, "None")

-----------------------------------------------------------------------------
(* MACIDBase.add_edge / remove_edge *)

\* lines 60-61, 65-66: a UniformRandomCPD installed at v is added again
ReaddUniform(self, v) ==
    IF HasCpd(self, v) /\ IsUniformRandomCPD(self.cpds[v])
    THEN add_cpds(self, <<self.cpds[v]>>)
    ELSE Outcome(self, FALSE, "None")

\* BayesianModel.add_edge raises on a self loop and on an edge closing a cycle
add_edge(self, u, v) ==
    IF u = v \/ (u \in self.nodes /\ v \in self.nodes /\ u \in ReachableFrom(self, {v}))
    THEN Outcome(self, TRUE, "None")
    ELSE ReaddUniform([self EXCEPT !.nodes = @ \cup {u, v},
                                   !.edges = @ \cup {<<u, v>>}], v)

\* DiGraph.remove_edge raises when the edge is absent
remove_edge(self, u, v) ==
    IF <<u, v>> \notin self.edges
    THEN Outcome(self, TRUE, "None")
    ELSE ReaddUniform([self EXCEPT !.edges = @ \ {<<u, v>>}], v)

-----------------------------------------------------------------------------
(* MACIDBase.copy_without_cpds / copy *)

copy_without_cpds(self) ==
    MACIDBase(self.edges,
              [agent \in agents(self) |->
                  [D |-> self.decision_nodes_agent[agent],
                   U |-> self.utility_nodes_agent[agent]]])

\* self.cpds as a list of CPDs
CpdList(self) ==
    LET order == AsList(DOMAIN self.cpds)
    IN [i \in DOMAIN order |-> self.cpds[order[i]]]

\* copy returning the diagram without its CPDs
copy_OmitCpds(self) == copy_without_cpds(self)

copy(self) ==
    LET model_copy == copy_without_cpds(self)
        copies == [i \in DOMAIN CpdList(self) |-> CopyCpd(CpdList(self)[i])]
    IN IF model_copy.raised \/ DOMAIN self.cpds = {} THEN model_copy
       ELSE add_cpds(model_copy.self, copies)

-----------------------------------------------------------------------------
(* MechanismGraph and the active-trail test *)

\* node[:-3]
AllButLast3(node) ==
    IF Len(node) > 3 THEN SubSeq(node, 1, Len(node) - 3) ELSE ""

\* lines 485-489: the loop over the nodes of cid, in the order of `todo`
RECURSIVE AddMechanisms(_, _)
AddMechanisms(mg, todo) ==
    IF todo = <<>> THEN Outcome(mg, FALSE, "None")
    ELSE IF AllButLast3(Head(todo)) = "mec" THEN Outcome(mg, TRUE, "None")
    ELSE LET mec == Head(todo) \o "mec"
             added == add_edge([mg EXCEPT !.nodes = @ \cup {mec}], mec, Head(todo))
         IN IF added.raised THEN added
            ELSE AddMechanisms(added.self, Tail(todo))

\* MechanismGraph.__init__(cid)
MechanismGraph(diagram) ==
    LET base == copy_without_cpds(diagram)
    IN IF base.raised THEN base
       ELSE AddMechanisms(base.self, AsList(diagram.nodes))

\* one step of the traversal of active_trail_nodes from <<node, direction>>
TrailStep(self, observed, ancestors_list, visit) ==
    LET node == visit[1]
        direction == visit[2]
        up == {<<p, "up">> : p \in get_parents(self, node)}
        down == {<<c, "down">> : c \in get_children(self, node)}
    IN IF direction = "up"
       THEN (IF node \notin observed THEN up \cup down ELSE {})
       ELSE (IF node \notin observed THEN down ELSE {})
            \cup (IF node \in ancestors_list THEN up ELSE {})

\* the visits made from the visits of `frontier`, `visited` being made already
RECURSIVE Traversed(_, _, _, _, _)
Traversed(self, observed, ancestors_list, visited, frontier) ==
    LET new == UNION {TrailStep(self, observed, ancestors_list, v) : v \in frontier}
               \ visited
    IN IF new = {} THEN visited
       ELSE Traversed(self, observed, ancestors_list, visited \cup new, new)

\* the nodes with an active trail from start given observed
active_trail_nodes(self, start, observed) ==
    LET ancestors_list == AncestorsOf(self, observed)
        traversed == Traversed(self, observed, ancestors_list,
                               {<<start, "up">>}, {<<start, "up">>})
    IN {v[1] : v \in traversed} \ observed

is_active_trail(self, start, end, observed) ==
    end \in active_trail_nodes(self, start, observed)

-----------------------------------------------------------------------------
(* MACIDBase.intervene / query *)

\* lines 181-183: the interventions on the variables of `todo`, in order
RECURSIVE InterveneLoop(_, _, _)
InterveneLoop(self, intervention, todo) ==
    IF todo = <<>> THEN Outcome(self, FALSE, "None")
    ELSE LET variable == Head(todo)
             cpd == FunctionCPD(variable, <<intervention[variable]>>,
                                AsList(get_parents(self, variable)),
                                <<intervention[variable]>>)
             added == add_cpds(self, <<cpd>>)
         IN IF variable \notin self.nodes THEN Outcome(self, TRUE, "None")
            ELSE IF added.raised THEN added
            ELSE InterveneLoop(added.self, intervention, Tail(todo))

intervene(self, intervention) ==
    InterveneLoop(self, intervention, AsList(DOMAIN intervention))

\* LacksPolicy without the isinstance(cpd, DecisionDomain) branch
LacksPolicy_NoDomainCheck(self, mech_graph, targets, context) ==
    \E decision \in all_decision_nodes(self), query_node \in Range(targets) :
        /\ is_active_trail(mech_graph, decision \o "mec", query_node, DOMAIN context)
        /\ ~HasCpd(self, decision)

\* lines 134-141: some decision with an active trail from its mechanism node
\* to a query node has no CPD or a DecisionDomain
LacksPolicy(self, mech_graph, targets, context) ==
    \E decision \in all_decision_nodes(self), query_node \in Range(targets) :
        /\ is_active_trail(mech_graph, decision \o "mec", query_node, DOMAIN context)
        /\ \/ ~HasCpd(self, decision)
           \/ IsDecisionDomain(self.cpds[decision])

\* lines 143-145: some context value is not a state name of its variable
BadContext(self, context) ==
    \E variable \in DOMAIN context :
        \/ ~HasCpd(self, variable)
        \/ context[variable] \notin Range(self.cpds[variable].state_names)

\* QueryDiagram intervening on the caller's diagram itself
QueryDiagram_AlwaysSelf(intervention) == "self"

\* lines 154-158: the diagram the inference runs on
QueryDiagram(intervention) ==
    IF intervention # <<>> THEN "copy" ELSE "self"

\* BeliefPropagation(cid).query: the inference oracle. It needs a CPD at
\* every node, computed over the graph parents of the node
OracleRejects(diagram) ==
    \E v \in diagram.nodes :
        \/ ~HasCpd(diagram, v)
        \/ Range(diagram.cpds[v].variables) # get_parents(diagram, v)

\* query(query, context, intervention): targets is the list `query`,
\* intervention is <<>> for None
query(self, targets, context, intervention) ==
    LET mech_graph == MechanismGraph(self)
        onSelf == QueryDiagram(intervention) = "self"
        start == IF onSelf THEN Outcome(self, FALSE, "None") ELSE copy(self)
        cid1 == IF start.raised \/ intervention = <<>> THEN start
                ELSE intervene(start.self, intervention)
        \* the caller's diagram after the call: cid is self unless copied
        after == IF onSelf THEN cid1.self ELSE self
    IN IF mech_graph.raised THEN Outcome(self, TRUE, "None")
       ELSE IF ~(DOMAIN context \subseteq self.nodes) THEN Outcome(self, TRUE, "None")
       ELSE IF LacksPolicy(self, mech_graph.self, targets, context)
            THEN Outcome(self, TRUE, "None")
       ELSE IF BadContext(self, context) THEN Outcome(self, TRUE, "None")
       ELSE IF cid1.raised THEN Outcome(after, TRUE, "None")
       ELSE IF \E v \in Range(targets) : v \notin cid1.self.nodes \/ ~HasCpd(cid1.self, v)
            THEN Outcome(after, TRUE, "None")
       ELSE IF OracleRejects(cid1.self) THEN Outcome(after, TRUE, "None")
       ELSE Outcome(after, FALSE, "factor")

-----------------------------------------------------------------------------
(* MACID, and r- and s-reachability *)

\* MACID.__init__ (macid.py): a MACIDBase of class MACID
MACID(edges, node_types) ==
    [MACIDBase(edges, node_types) EXCEPT !.self.class = "MACID"]

\* the value a Python bool is returned as
Bool(b) == IF b THEN "True" ELSE "False"

\* itertools.product(decisions, nodes) / the pairs the nested loops visit
Pairs(xs, ys) ==
    [k \in 1..(Len(xs) * Len(ys)) |->
        <<xs[((k - 1) \div Len(ys)) + 1], ys[((k - 1) % Len(ys)) + 1]>>]

\* lines 257-261: one decision and one node; "True", "raise" or "next"
RReachStep(self, mg, decision, node) ==
    IF decision \notin self.nodes \/ decision \notin DOMAIN self.whose_node
    THEN "raise"
    ELSE LET con_nodes == {decision} \cup get_parents(self, decision)
             agent_utilities == self.utility_nodes_agent[self.whose_node[decision]]
             utilities == Range(agent_utilities) \cap descendants(self, decision)
         IN IF utilities = {} THEN "next"
            ELSE IF (node \o "mec") \notin mg.nodes THEN "raise"
            ELSE IF \E utility \in utilities :
                        is_active_trail(mg, node \o "mec", utility, con_nodes)
                 THEN "True"
            ELSE "next"

\* lines 255-262: the loops over decisions and nodes
RECURSIVE RReachLoop(_, _, _)
RReachLoop(self, mg, pairs) ==
    IF pairs = <<>> THEN "False"
    ELSE LET step == RReachStep(self, mg, Head(pairs)[1], Head(pairs)[2])
         IN IF step = "next" THEN RReachLoop(self, mg, Tail(pairs)) ELSE step

\* lines 255-262 on the mechanism graph made at line 254
RReachOutcome(self, raised, result) ==
    IF raised \/ result = "raise" THEN Outcome(self, TRUE, "None")
    ELSE Outcome(self, FALSE, result)

RReachOn(self, mg, pairs) ==
    RReachOutcome(self, mg.raised,
                  IF mg.raised THEN "raise" ELSE RReachLoop(self, mg.self, pairs))

\* MACIDBase.is_r_reachable(decisions, nodes), both given as lists
is_r_reachable(self, decisions, nodes) ==
    RReachOn(self, MechanismGraph(self), Pairs(decisions, nodes))

\* MACIDBase.is_s_reachable(d1, d2), d1 given as a list
MACIDBase_is_s_reachable(self, d1, d2) ==
    IF d2 \notin all_decision_nodes(self) THEN Outcome(self, TRUE, "None")
    ELSE is_r_reachable(self, d1, <<d2>>)

\* DiGraph.remove_node: the node and its edges
remove_node(self, n) ==
    [self EXCEPT !.nodes = @ \ {n},
                 !.edges = {e \in @ : e[1] # n /\ e[2] # n}]

\* macid.py lines 66-71, after add_edge('temp_par', d2) ended as `added`
TempParTest(added, d1) ==
    LET self == added.self
        agent == self.whose_node[d1]
        agent_utilities == self.utility_nodes_agent[agent]
        con_nodes == {d1} \cup get_parents(self, d1)
    IN IF added.raised THEN added
       ELSE IF d1 \notin DOMAIN self.whose_node \/ d1 \notin self.nodes
       THEN Outcome(self, TRUE, "None")
       ELSE Outcome(remove_node(self, "temp_par"), FALSE,
                    Bool(\E u_node \in Range(agent_utilities) :
                            is_active_trail(self, "temp_par", u_node, con_nodes)))

\* MACID.is_s_reachable(d1, d2) (macid.py lines 56-71)
MACID_is_s_reachable(self, d1, d2) ==
    TempParTest(add_edge(self, "temp_par", d2), d1)

\* self.is_s_reachable(d1, d2): the method of the object's class
is_s_reachable(self, d1, d2) ==
    IF self.class = "MACID" THEN MACID_is_s_reachable(self, d1, d2)
    ELSE MACIDBase_is_s_reachable(self, <<d1>>, d2)

-----------------------------------------------------------------------------
(* RelevanceGraph (core/relevance_graph.py) and sufficient_recall *)

\* itertools.permutations(decisions, 2)
Permutations2(decisions) ==
    SelectSeq(Pairs(decisions, decisions), LAMBDA pair : pair[1] # pair[2])

\* the loop over the pairs of decisions: the value is the set of edges added
RECURSIVE RelevanceEdges(_, _, _), RelevanceEdgesAfter(_, _, _)
RelevanceEdges(self, pairs, edges) ==
    IF pairs = <<>> THEN Outcome(self, FALSE, edges)
    ELSE RelevanceEdgesAfter(is_s_reachable(self, Head(pairs)[1], Head(pairs)[2]),
                             pairs, edges)

\* the loop after the test `reach` of the first pair
RelevanceEdgesAfter(reach, pairs, edges) ==
    IF reach.raised THEN Outcome(reach.self, TRUE, edges)
    ELSE RelevanceEdges(reach.self, Tail(pairs),
                        IF reach.value = "True"
                        THEN edges \cup {Head(pairs)} ELSE edges)

\* RelevanceGraph(cid, decisions): an edge D -> D2 for each ordered pair of
\* distinct decisions with cid.is_s_reachable(D, D2)
RelevanceGraph(diagram, decisions) ==
    RelevanceEdges(diagram, Permutations2(decisions), {})

\* RelevanceGraph.is_acyclic, for the graph on `decisions` with `edges`
is_acyclic(decisions, edges) == IsDag(Range(decisions), edges)

\* the default of the parameter `agent`
None == -1

\* `not agent`
Falsy(agent) == agent = None \/ agent = 0

\* a set of agents as the list self.agents / [agent]
RECURSIVE AgentList(_)
AgentList(S) ==
    IF S = {} THEN <<>>
    ELSE LET a == CHOOSE x \in S : \A y \in S : x <= y
         IN <<a>> \o AgentList(S \ {a})

\* lines 281-285: the loop over the agents in scope
RECURSIVE RecallLoop(_, _), RecallLoopAfter(_, _, _)
RecallLoop(self, todo) ==
    IF todo = <<>> THEN Outcome(self, FALSE, "True")
    ELSE RecallLoopAfter(RelevanceGraph(self, self.decision_nodes_agent[Head(todo)]),
                         self.decision_nodes_agent[Head(todo)], todo)

\* the loop after the relevance graph `rg` of the first agent is built
RecallLoopAfter(rg, decisions, todo) ==
    IF rg.raised THEN Outcome(rg.self, TRUE, "None")
    ELSE IF ~is_acyclic(decisions, rg.value) THEN Outcome(rg.self, FALSE, "False")
    ELSE RecallLoop(rg.self, Tail(todo))

\* MACIDBase.sufficient_recall(agent)
sufficient_recall(self, agent) ==
    IF ~Falsy(agent) /\ agent \notin agents(self) THEN Outcome(self, TRUE, "None")
    ELSE RecallLoop(self, IF Falsy(agent) THEN AgentList(agents(self)) ELSE <<agent>>)

-----------------------------------------------------------------------------
(* MACID.strategic_rel_graph, is_strategically_acyclic and                   *)
(* get_acyclic_topological_ordering; the condensation of a relevance graph   *)

\* a nx.DiGraph that is given edges only: its nodes are their end points
DiGraphOfEdges(edges) ==
    [nodes |-> {e[1] : e \in edges} \cup {e[2] : e \in edges}, edges |-> edges]

\* macid.py lines 81-83: the loop over the pairs of decisions; the value is
\* the set of the edges added
RECURSIVE StrategicEdges(_, _, _), StrategicEdgesAfter(_, _, _)
StrategicEdges(self, dec_pair_perms, edges) ==
    IF dec_pair_perms = <<>> THEN Outcome(self, FALSE, DiGraphOfEdges(edges))
    ELSE StrategicEdgesAfter(
             is_s_reachable(self, Head(dec_pair_perms)[1], Head(dec_pair_perms)[2]),
             dec_pair_perms, edges)

\* line 82 having ended as `reach` for the first pair
StrategicEdgesAfter(reach, dec_pair_perms, edges) ==
    IF reach.raised THEN Outcome(reach.self, TRUE, "None")
    ELSE StrategicEdges(reach.self, Tail(dec_pair_perms),
                        IF reach.value = "True"
                        THEN edges \cup {Head(dec_pair_perms)} ELSE edges)

\* MACID.strategic_rel_graph(): all_decision_nodes is listed in the order of
\* a Python set; every test of the loop leaves the diagram as it found it
strategic_rel_graph(self) ==
    StrategicEdges(self, Permutations2(AsList(all_decision_nodes(self))), {})

\* line 101, strategic_rel_graph having ended as `rg`
AcyclicOf(rg) ==
    IF rg.raised THEN rg
    ELSE Outcome(rg.self, FALSE, Bool(IsDag(rg.value.nodes, rg.value.edges)))

\* MACID.is_strategically_acyclic()
is_strategically_acyclic(self) == AcyclicOf(strategic_rel_graph(self))

\* nx.topological_sort(graph): the lists it may yield, which one depending on
\* the order in which the nodes and edges were added
TopologicalSorts(graph) ==
    IF graph.nodes = {} THEN {<<>>}
    ELSE
    {order \in [1..Cardinality(graph.nodes) -> graph.nodes] :
        /\ \A i, j \in DOMAIN order : i # j => order[i] # order[j]
        /\ \A e \in graph.edges :
              \E i, j \in DOMAIN order : i < j /\ order[i] = e[1] /\ order[j] = e[2]}

\* lines 111-115, is_strategically_acyclic having ended as `acyclic`; the
\* value is the set of the lists that line 115 may return
OrderingChecked(rg, acyclic) ==
    IF acyclic.raised \/ acyclic.value = "False" THEN Outcome(acyclic.self, TRUE, "None")
    ELSE Outcome(acyclic.self, FALSE, TopologicalSorts(rg))

\* lines 111-115, strategic_rel_graph having ended as `rg`
OrderingOf(rg) ==
    IF rg.raised THEN rg
    ELSE OrderingChecked(rg.value, is_strategically_acyclic(rg.self))

\* MACID.get_acyclic_topological_ordering()
get_acyclic_topological_ordering(self) == OrderingOf(strategic_rel_graph(self))

\* the nodes of `graph` that have a directed path from a node of S (S included)
RECURSIVE ReachableIn(_, _)
ReachableIn(graph, S) ==
    LET next == S \cup {e[2] : e \in {f \in graph.edges : f[1] \in S}}
    IN IF next = S THEN S ELSE ReachableIn(graph, next)

\* the component of v tied to v by forward paths only
SccOf_ForwardOnly(graph, v) == ReachableIn(graph, {v})

\* the maximal strongly connected component of node v
SccOf(graph, v) ==
    {w \in graph.nodes : w \in ReachableIn(graph, {v}) /\ v \in ReachableIn(graph, {w})}

\* condense(): the components with the decisions they hold, and an edge
\* between two components for every edge between their decisions
condense(graph) ==
    LET sccs == {SccOf(graph, v) : v \in graph.nodes}
    IN [nodes |-> sccs,
        edges |-> {pair \in sccs \X sccs :
                      /\ pair[1] # pair[2]
                      /\ \E e \in graph.edges : e[1] \in pair[1] /\ e[2] \in pair[2]}]

\* the condensation of RelevanceGraph(diagram, decisions), the relevance
\* graph having ended as `rg`
CondensedOf(rg, decisions) ==
    IF rg.raised THEN rg
    ELSE Outcome(rg.self, FALSE,
                 condense([nodes |-> Range(decisions), edges |-> rg.value]))

CondensedRelevanceGraph(diagram, decisions) ==
    CondensedOf(RelevanceGraph(diagram, decisions), decisions)

-----------------------------------------------------------------------------
(* admits_ri / admits_ri_list (analyze/response_incentive.py), with the      *)
(* requisite graph (analyze/requisite_graph.py) and find_all_dir_paths       *)
(* (core/get_paths.py)                                                       *)

\* nx.topological_sort restricted to the nodes of `todo`
RECURSIVE TopologicalOrder(_, _)
TopologicalOrder(self, todo) ==
    IF todo = {} THEN <<>>
    ELSE LET var == NextInTopologicalOrder(self, todo)
         IN <<var>> \o TopologicalOrder(self, todo \ {var})

\* requisite(cid, decision, node): the parent `node` of the decision has an
\* active trail to a utility node that descends from the decision, given the
\* decision and its other parents
requisite(self, decision, node) ==
    \E u_node \in all_utility_nodes(self) \cap descendants(self, decision) :
        is_active_trail(self, node, u_node,
                        ({decision} \cup get_parents(self, decision)) \ {node})

\* the decisions of `todo` from the last on: the edges from the parents that
\* are not requisite are removed
RECURSIVE RequisiteLoop(_, _)
RequisiteLoop(graph, todo) ==
    IF todo = <<>> THEN graph
    ELSE LET decision == todo[Len(todo)]
             non_requisite == {node \in get_parents(graph, decision) :
                                  ~requisite(graph, decision, node)}
         IN RequisiteLoop([graph EXCEPT !.edges =
                               @ \ {<<node, decision>> : node \in non_requisite}],
                          SubSeq(todo, 1, Len(todo) - 1))

\* requisite_graph(cid): the diagram pruned to the requisite observations of
\* its decisions
requisite_graph(self) ==
    RequisiteLoop(self, TopologicalOrder(self, all_decision_nodes(self)))

\* find_all_dir_paths(graph, start, end): the directed paths from start to
\* end, the path of the one node start when start is end
RECURSIVE DirPathsFrom(_, _, _)
DirPathsFrom(graph, path, finish) ==
    IF path[Len(path)] = finish THEN {path}
    ELSE UNION {DirPathsFrom(graph, Append(path, child), finish) :
                   child \in get_children(graph, path[Len(path)])}

find_all_dir_paths(graph, start, end) == DirPathsFrom(graph, <<start>>, end)

\* RiResult without the test of line 24
RiResult_NoSelfTest(self, decision, node) ==
    Bool(find_all_dir_paths(requisite_graph(self), node, decision) # {})

\* lines 24-31: the value admits_ri returns
RiResult(self, decision, node) ==
    IF node = decision THEN "False"
    ELSE Bool(find_all_dir_paths(requisite_graph(self), node, decision) # {})

\* RiAfterRecall without the test of line 22
RiAfterRecall_Unchecked(recall, decision, node) ==
    Outcome(recall.self, FALSE, RiResult(recall.self, decision, node))

\* lines 22-31, cid.sufficient_recall() having ended as `recall`
RiAfterRecall(recall, decision, node) ==
    IF recall.raised \/ recall.value = "False" THEN Outcome(recall.self, TRUE, "None")
    ELSE Outcome(recall.self, FALSE, RiResult(recall.self, decision, node))

\* admits_ri(cid, decision, node)
admits_ri(self, decision, node) ==
    IF Cardinality(agents(self)) > 1 THEN Outcome(self, TRUE, "None")
    ELSE IF node \notin self.nodes \/ decision \notin self.nodes
         THEN Outcome(self, TRUE, "None")
    ELSE RiAfterRecall(sufficient_recall(self, None), decision, node)

\* line 38: the nodes of `todo` in order; the value is the list of those
\* that admit a response incentive
RECURSIVE RiListLoop(_, _, _, _), RiListAfter(_, _, _, _)
RiListLoop(self, decision, todo, found) ==
    IF todo = <<>> THEN Outcome(self, FALSE, found)
    ELSE RiListAfter(admits_ri(self, decision, Head(todo)), decision, todo, found)

\* line 38 after admits_ri of the first node ended as `admits`
RiListAfter(admits, decision, todo, found) ==
    IF admits.raised THEN admits
    ELSE RiListLoop(admits.self, decision, Tail(todo),
                    IF admits.value = "True" THEN Append(found, Head(todo)) ELSE found)

\* admits_ri_list(cid, decision)
admits_ri_list(self, decision) == RiListLoop(self, decision, AsList(self.nodes), <<>>)

-----------------------------------------------------------------------------
(* Values: the tables of the CPDs and the inference oracle *)

RECURSIVE SeqSum(_)
SeqSum(xs) == IF xs = <<>> THEN 0 ELSE Head(xs) + SeqSum(Tail(xs))

RECURSIVE SeqProduct(_)
SeqProduct(xs) == IF xs = <<>> THEN 1 ELSE Head(xs) * SeqProduct(Tail(xs))

\* itertools.product(*lists): the first list varies slowest
RECURSIVE CartesianProduct(_)
CartesianProduct(lists) ==
    IF lists = <<>> THEN << <<>> >>
    ELSE LET rest == CartesianProduct(Tail(lists))
             n == Len(rest)
         IN [k \in 1..(Len(Head(lists)) * n) |->
                <<Head(lists)[((k - 1) \div n) + 1]>> \o rest[((k - 1) % n) + 1]]

\* get_cpds(p).name_to_no[p][value]
name_to_no(self, p, value) ==
    CHOOSE no \in 0..(Len(self.cpds[p].state_names) - 1) :
        self.cpds[p].state_names[no + 1] = value

\* cpd.cardinality[1:] for a table over `parents`
evidence_card(self, parents) ==
    [i \in DOMAIN parents |-> Len(self.cpds[parents[i]].state_names)]

\* arg2idx adding up the numbers of the parent values without their weights
arg2idx_Unweighted(self, parents, parent_values) ==
    SeqSum([i \in DOMAIN parents |-> name_to_no(self, parents[i], parent_values[i])])

\* lines 300-306: the index of a decision context in a function list
arg2idx(self, parents, parent_values) ==
    SeqSum([i \in DOMAIN parents |->
               name_to_no(self, parents[i], parent_values[i])
               * SeqProduct(SubSeq(evidence_card(self, parents), 1, i - 1))])

\* the output of a FunctionCPD under the assignment `a` of values to nodes:
\* its function is held as the list of its outputs, indexed as by arg2idx; a
\* list of one output is a constant function
FunctionValue(self, cpd, a) ==
    IF Len(cpd.function) = 1 THEN cpd.function[1]
    ELSE cpd.function[arg2idx(self, cpd.evidence,
                              [i \in DOMAIN cpd.evidence |-> a[cpd.evidence[i]]]) + 1]

\* the assignments of state names to the nodes that have probability > 0:
\* every FunctionCPD yields its output, every uniform table any state name
PossibleAssignments(self, context) ==
    {a \in [self.nodes -> UNION {Range(self.cpds[v].state_names) : v \in self.nodes}] :
        /\ \A v \in self.nodes : a[v] \in Range(self.cpds[v].state_names)
        /\ \A v \in self.nodes :
              IsFunctionCPD(self.cpds[v]) => a[v] = FunctionValue(self, self.cpds[v], a)
        /\ \A v \in DOMAIN context : a[v] = context[v]}

\* BeliefPropagation(cid).query(targets, context): the factor over the
\* targets, as the number of equally probable possible assignments that
\* give the targets each list of values
BeliefPropagation_query(diagram, targets, context) ==
    LET possible == PossibleAssignments(diagram, context)
        of(a) == [i \in DOMAIN targets |-> a[targets[i]]]
    IN [variables |-> targets,
        values |-> [t \in {of(a) : a \in possible} |->
                       Cardinality({a \in possible : of(a) = t})]]

-----------------------------------------------------------------------------
(* expected_value / expected_utility *)

\* the sum of the values of a function
RECURSIVE FunctionSum(_)
FunctionSum(f) ==
    IF DOMAIN f = {} THEN 0
    ELSE LET x == CHOOSE y \in DOMAIN f : TRUE
         IN f[x] + FunctionSum([y \in DOMAIN f \ {x} |-> f[y]])

\* lines 154-158: the diagram the inference runs on, when query does not raise
InferenceDiagram(self, intervention) ==
    IF QueryDiagram(intervention) = "self" THEN self
    ELSE intervene(copy(self).self, intervention).self

\* line 169: the factor that query returns when it does not raise
QueryFactor(self, targets, context, intervention) ==
    BeliefPropagation_query(InferenceDiagram(self, intervention), targets, context)

\* lines 190-201, query having ended as `asked` with the factor `factor`: the
\* expected values of the variables, as the numerators `num` over the common
\* denominator `den` that normalize() divides by; a factor that sums to 0
\* yields NaN and an exception
ExpectedValues(asked, factor) ==
    IF asked.raised THEN asked
    ELSE IF FunctionSum(factor.values) = 0 THEN Outcome(asked.self, TRUE, "None")
    ELSE Outcome(asked.self, FALSE,
                 [num |-> [i \in DOMAIN factor.variables |->
                              FunctionSum([t \in DOMAIN factor.values |->
                                              factor.values[t] * t[i]])],
                  den |-> FunctionSum(factor.values)])

\* expected_value(variables, context, intervene)
expected_value(self, variables, context, intervention) ==
    ExpectedValues(query(self, variables, context, intervention),
                   QueryFactor(self, variables, context, intervention))

\* line 212: sum(...) of the expected values `ev`
SumOf(ev) ==
    IF ev.raised THEN ev
    ELSE Outcome(ev.self, FALSE, [num |-> SeqSum(ev.value.num), den |-> ev.value.den])

\* expected_utility(context, intervene, agent): the sum of the expected
\* values of the agent's utility nodes, as a fraction
expected_utility(self, context, intervention, agent) ==
    IF agent \notin agents(self) THEN Outcome(self, TRUE, "None")
    ELSE SumOf(expected_value(self, self.utility_nodes_agent[agent], context, intervention))

-----------------------------------------------------------------------------
(* Pure decision rules and optimal pure strategies *)

\* lines 290-313: the decision rules at a decision, in the order of
\* itertools.product(state_names, repeat=number of decision contexts)
pure_decision_rules(self, decision) ==
    IF ~HasCpd(self, decision) THEN Outcome(self, TRUE, "None")
    ELSE LET cpd == self.cpds[decision]
             parents == cpd.variables
             state_names == cpd.state_names
             contexts == SeqProduct(evidence_card(self, parents))
             functions_as_lists ==
                 CartesianProduct([i \in 1..contexts |-> state_names])
         IN Outcome(self, FALSE,
                    [k \in DOMAIN functions_as_lists |->
                        FunctionCPD(decision, functions_as_lists[k], parents, state_names)])

\* pure_strategies(decision_nodes): the product of the decisions' rule lists
pure_strategies(self, decision_nodes) ==
    LET possible_dec_rules ==
            [i \in DOMAIN decision_nodes |-> pure_decision_rules(self, decision_nodes[i])]
    IN IF \E i \in DOMAIN decision_nodes : possible_dec_rules[i].raised
       THEN Outcome(self, TRUE, "None")
       ELSE Outcome(self, FALSE,
                    CartesianProduct([i \in DOMAIN decision_nodes |->
                                         possible_dec_rules[i].value]))

\* impute_random_decision leaving the CPD of d as it is
impute_random_decision_Keep(self, d) == Outcome(self, FALSE, "None")

\* impute_random_decision(d)
impute_random_decision(self, d) ==
    IF ~HasCpd(self, d) THEN Outcome(self, TRUE, "None")
    ELSE add_cpds(self, <<UniformRandomCPD(d, self.cpds[d].state_names)>>)

\* lines 331-333: the decisions of `todo`, in order, that are not s-reachable
\* from `decisions` and hold a DecisionDomain are given a random policy
RECURSIVE ImputeLoop(_, _, _), ImputeTested(_, _, _, _), ImputeDone(_, _, _)
ImputeLoop(macid, decisions, todo) ==
    IF todo = <<>> THEN Outcome(macid, FALSE, "None")
    ELSE ImputeTested(MACIDBase_is_s_reachable(macid, decisions, Head(todo)),
                      macid, decisions, todo)

\* line 332, is_s_reachable having ended as `reach`
ImputeTested(reach, macid, decisions, todo) ==
    IF reach.raised THEN reach
    ELSE IF /\ reach.value = "False"
            /\ HasCpd(macid, Head(todo))
            /\ IsDecisionDomain(macid.cpds[Head(todo)])
         THEN ImputeDone(impute_random_decision(macid, Head(todo)), decisions, todo)
    ELSE ImputeLoop(macid, decisions, Tail(todo))

\* line 333, impute_random_decision having ended as `imputed`
ImputeDone(imputed, decisions, todo) ==
    IF imputed.raised THEN imputed
    ELSE ImputeLoop(imputed.self, decisions, Tail(todo))

\* lines 336-338: each strategy is added and its expected utility taken; the
\* value is the list of the expected utilities
RECURSIVE EvaluateLoop(_, _, _, _), EvaluateAdded(_, _, _, _), EvaluateNext(_, _, _, _)
EvaluateLoop(macid, agent, todo, utilities) ==
    IF todo = <<>> THEN Outcome(macid, FALSE, utilities)
    ELSE EvaluateAdded(add_cpds(macid, Head(todo)), agent, todo, utilities)

\* line 338, add_cpds(*strategy) having ended as `added`
EvaluateAdded(added, agent, todo, utilities) ==
    IF added.raised THEN added
    ELSE EvaluateNext(expected_utility(added.self, <<>>, <<>>, agent),
                      agent, todo, utilities)

\* line 338, expected_utility having ended as `eu`
EvaluateNext(eu, agent, todo, utilities) ==
    IF eu.raised THEN eu
    ELSE EvaluateLoop(eu.self, agent, Tail(todo), Append(utilities, eu.value))

\* IsMaximal keeping the first strategy of maximal expected utility only
IsMaximal_FirstOnly(expected_utilities, i) ==
    /\ \A j \in DOMAIN expected_utilities :
          expected_utilities[j].num * expected_utilities[i].den
              <= expected_utilities[i].num * expected_utilities[j].den
    /\ \A j \in 1..(i - 1) :
          expected_utilities[j].num * expected_utilities[i].den
              # expected_utilities[i].num * expected_utilities[j].den

\* lines 339-340: expected_utility[i] == max(expected_utility)
IsMaximal(expected_utilities, i) ==
    \A j \in DOMAIN expected_utilities :
        expected_utilities[j].num * expected_utilities[i].den
            <= expected_utilities[i].num * expected_utilities[j].den

\* CallersDiagram when macid is the caller's own object and no copy of it
CallersDiagram_Alias(self, working) == working

\* line 330: macid = self.copy() is an object of its own, so the caller's
\* diagram `self` stays as it is whatever the calls on macid made of macid
\* (`working`)
CallersDiagram(self, working) == self

\* an outcome together with the local variable macid as lines 335-338 start
\* to compare the strategies on it: a list of that one diagram, or of none
\* when the lines are not reached
WithLocal(outcome, macid) ==
    [self |-> outcome.self, raised |-> outcome.raised, value |-> outcome.value,
     macid |-> macid]

\* lines 339-340, the evaluation loop having ended as `evaluated`
OptimalAmong(self, strategies, evaluated) ==
    LET kept == SelectSeq([i \in DOMAIN strategies |-> i],
                          LAMBDA i : IsMaximal(evaluated.value, i))
    IN IF evaluated.raised
       THEN Outcome(CallersDiagram(self, evaluated.self), TRUE, "None")
       ELSE Outcome(CallersDiagram(self, evaluated.self), FALSE,
                    [k \in DOMAIN kept |-> strategies[kept[k]]])

\* lines 335-340, pure_strategies having ended as `strategies`
OptimalOver(self, macid, strategies, agent) ==
    IF strategies.raised
    THEN WithLocal(Outcome(CallersDiagram(self, macid), TRUE, "None"), <<>>)
    ELSE WithLocal(OptimalAmong(self, strategies.value,
                                EvaluateLoop(macid, agent, strategies.value, <<>>)),
                   <<macid>>)

\* lines 334-340, the imputation loop having ended as `imputed`
OptimalAfterImputing(self, imputed, decisions, agent) ==
    IF imputed.raised
    THEN WithLocal(Outcome(CallersDiagram(self, imputed.self), TRUE, "None"), <<>>)
    ELSE OptimalOver(self, imputed.self, pure_strategies(imputed.self, decisions), agent)

\* lines 331-340, self.copy() having ended as `macid`; all_decision_nodes is
\* listed in the order of a Python set, and the reachability tests of the
\* loop read the graph only
OptimalOnCopy(self, macid, decisions, agent) ==
    IF macid.raised THEN WithLocal(Outcome(self, TRUE, "None"), <<>>)
    ELSE OptimalAfterImputing(self,
             ImputeLoop(macid.self, decisions, AsList(all_decision_nodes(macid.self))),
             decisions, agent)

\* optimal_pure_strategies(decisions)
optimal_pure_strategies(self, decisions) ==
    IF decisions = <<>> THEN WithLocal(Outcome(self, FALSE, <<>>), <<>>)
    ELSE IF decisions[1] \notin DOMAIN self.whose_node
         THEN WithLocal(Outcome(self, TRUE, "None"), <<>>)
    ELSE IF ~(Range(decisions)
                \subseteq Range(self.decision_nodes_agent[self.whose_node[decisions[1]]]))
         THEN WithLocal(Outcome(self, TRUE, "None"), <<>>)
    ELSE OptimalOnCopy(self, copy(self), decisions, self.whose_node[decisions[1]])

\* line 346: the first rule of each optimal strategy
FirstRules(found) ==
    IF found.raised THEN Outcome(found.self, TRUE, "None")
    ELSE Outcome(found.self, FALSE, [k \in DOMAIN found.value |-> found.value[k][1]])

\* optimal_pure_decision_rules(decision)
optimal_pure_decision_rules(self, decision) ==
    FirstRules(optimal_pure_strategies(self, <<decision>>))

-----------------------------------------------------------------------------
(* MACIDBase.make_decision / make_chance *)

\* list.remove(x): the list without the first x
ListRemoveFirst(l, x) ==
    LET first == CHOOSE i \in DOMAIN l : l[i] = x /\ \A j \in 1..(i - 1) : l[j] # x
    IN SubSeq(l, 1, first - 1) \o SubSeq(l, first + 1, Len(l))

\* lines 73-76: the node, which has a CPD that is no DecisionDomain, is
\* appended to the agent's decisions and given the DecisionDomain of its
\* state names
TurnedIntoDecision(self, node, agent) ==
    add_cpds([self EXCEPT !.decision_nodes_agent[agent] = Append(@, node),
                          !.whose_node = Put(@, node, agent)],
             <<DecisionDomain(node, self.cpds[node].state_names)>>)

\* make_decision(node, agent): get_cpds raises for a node that is not in the
\* graph, line 73 for a node without a CPD, and line 74 for an agent that the
\* diagram does not have
make_decision(self, node, agent) ==
    IF node \notin self.nodes THEN Outcome(self, TRUE, "None")
    ELSE IF HasCpd(self, node) /\ IsDecisionDomain(self.cpds[node])
         THEN Outcome(self, FALSE, "None")
    ELSE IF ~HasCpd(self, node) \/ agent \notin agents(self)
         THEN Outcome(self, TRUE, "None")
    ELSE TurnedIntoDecision(self, node, agent)

\* make_chance(node): line 83 raises for a decision without an entry in
\* whose_node, line 84 for one that is no decision of the agent found there
make_chance(self, node) ==
    IF node \notin all_decision_nodes(self) THEN Outcome(self, FALSE, "None")
    ELSE IF node \notin DOMAIN self.whose_node THEN Outcome(self, TRUE, "None")
    ELSE IF node \notin Range(self.decision_nodes_agent[self.whose_node[node]])
         THEN Outcome(self, TRUE, "None")
    ELSE Outcome([self EXCEPT !.decision_nodes_agent[self.whose_node[node]] =
                                  ListRemoveFirst(@, node),
                              !.whose_node = Del(@, node)],
                 FALSE, "None")

-----------------------------------------------------------------------------
(* The diagrams and inputs of specification Spec *)

Names == {"A", "B", "U"}

\* state names given to the CPDs
Binary == <<0, 1>>

\* the node_types arguments diagrams are constructed with
NodeTypeChoices ==
    { (0 :> [D |-> <<"A">>, U |-> <<"U">>]),
      (0 :> [D |-> <<"A", "B">>, U |-> <<"U">>]),
      (0 :> [D |-> <<"A">>, U |-> <<"U">>]) @@ (1 :> [D |-> <<"B">>, U |-> <<>>]) }

\* the edge lists diagrams are constructed with: the sublists of a DAG
EdgeChoices == SUBSET {<<"A", "B">>, <<"A", "U">>, <<"B", "U">>}

\* the evidence lists given to FunctionCPDs
EvidenceChoices(v) == {AsList(ev) : ev \in SUBSET ({"A", "B"} \ {v})}

\* the CPDs given to add_cpds; the function of a FunctionCPD is left abstract
CpdChoices ==
    {UniformRandomCPD(v, Binary) : v \in Names}
    \cup {DecisionDomain(v, Binary) : v \in Names}
    \cup UNION {{FunctionCPD(v, <<>>, ev, Binary) : ev \in EvidenceChoices(v)} :
                   v \in Names}

\* the argument lists of add_cpds: one CPD per variable
CpdLists ==
    {l \in ListsUpTo(CpdChoices, MaxCpds) :
        /\ l # <<>>
        /\ \A i, j \in DOMAIN l : i # j => l[i].variable # l[j].variable}

\* the query lists, contexts and interventions given to query; the value 2
\* is no state name
QueryChoices == {<<v>> : v \in Names}

ContextChoices == {<<>>} \cup {(k :> 0) : k \in Names} \cup {("A" :> 2)}

InterventionChoices == {<<>>} \cup {(k :> 1) : k \in Names}

NoCall == [op |-> "__init__", args |-> <<>>]

NoRet == [raised |-> FALSE, value |-> "None"]

Init ==
    /\ \E edges \in EdgeChoices, node_types \in NodeTypeChoices :
          /\ ~MACIDBase(edges, node_types).raised
          /\ cid = MACIDBase(edges, node_types).self
    /\ call = NoCall
    /\ ret = NoRet
    /\ ops = 0
    /\ edgeChanged = {}
    /\ supplied = <<>>

\* the variables of the CPDs that lines 97-105 stored before returning or raising
RECURSIVE StoredVariables(_, _)
StoredVariables(self, cpds) ==
    IF cpds = <<>> \/ RejectsCpd(self, Head(cpds)) THEN {}
    ELSE {Head(cpds).variable} \cup StoredVariables(self, Tail(cpds))

AddCpds ==
    /\ ops < MaxOps
    /\ \E cpds \in CpdLists :
          LET r == add_cpds(cid, cpds)
          IN /\ cid' = r.self
             /\ call' = [op |-> "add_cpds", args |-> cpds]
             /\ ret' = [raised |-> r.raised, value |-> r.value]
             /\ edgeChanged' = edgeChanged \ StoredVariables(cid, cpds)
    /\ ops' = ops + 1
    /\ UNCHANGED supplied

AddEdge ==
    /\ ops < MaxOps
    /\ \E u \in Names, v \in Names :
          LET r == add_edge(cid, u, v)
          IN /\ cid' = r.self
             /\ call' = [op |-> "add_edge", args |-> <<u, v>>]
             /\ ret' = [raised |-> r.raised, value |-> r.value]
             /\ edgeChanged' = IF r.raised THEN edgeChanged ELSE edgeChanged \cup {v}
    /\ ops' = ops + 1
    /\ UNCHANGED supplied

RemoveEdge ==
    /\ ops < MaxOps
    /\ \E u \in Names, v \in Names :
          LET r == remove_edge(cid, u, v)
          IN /\ cid' = r.self
             /\ call' = [op |-> "remove_edge", args |-> <<u, v>>]
             /\ ret' = [raised |-> r.raised, value |-> r.value]
             /\ edgeChanged' = IF r.raised THEN edgeChanged ELSE edgeChanged \cup {v}
    /\ ops' = ops + 1
    /\ UNCHANGED supplied

Query ==
    /\ ops < MaxOps
    /\ \E q \in QueryChoices, context \in ContextChoices,
          intervention \in InterventionChoices :
          LET r == query(cid, q, context, intervention)
          IN /\ cid' = r.self
             /\ call' = [op |-> "query", args |-> <<q, context, intervention>>]
             /\ ret' = [raised |-> r.raised, value |-> r.value]
    /\ ops' = ops + 1
    /\ UNCHANGED <<edgeChanged, supplied>>

Next ==
    \/ AddCpds
    \/ AddEdge
    \/ RemoveEdge
    \/ Query

Spec == Init /\ [][Next]_vars

\* the call `op` with arguments `args` is made and ends as `done`
Called(op, args, done) ==
    /\ cid' = done.self
    /\ call' = [op |-> op, args |-> args]
    /\ ret' = [raised |-> done.raised, value |-> done.value]

-----------------------------------------------------------------------------
(* Specification SpecReach: one reachability or recall call on a diagram *)

\* the edge lists of the generated diagrams: the sublists of a DAG
ReachEdgeChoices ==
    SUBSET {<<"S1", "A">>, <<"S1", "U">>, <<"A", "B">>, <<"A", "U">>, <<"B", "U">>}

\* the node_types of the generated diagrams
ReachNodeTypeChoices ==
    { (0 :> [D |-> <<"A">>, U |-> <<"U">>]),
      (0 :> [D |-> <<"A", "B">>, U |-> <<"U">>]),
      (0 :> [D |-> <<"A">>, U |-> <<"U">>]) @@ (1 :> [D |-> <<"B">>, U |-> <<>>]),
      (0 :> [D |-> <<"S1">>, U |-> <<>>]) @@ (1 :> [D |-> <<"A", "B">>, U |-> <<"U">>]),
      (0 :> [D |-> <<"A", "B">>, U |-> <<"U">>]) @@ (1 :> [D |-> <<"S1">>, U |-> <<>>]) }

\* the edges of get_sequential_cid (examples/simple_cids.py)
get_sequential_cid_edges ==
    {<<"S1", "D1">>, <<"D1", "U1">>, <<"S1", "U1">>, <<"D1", "S2">>,
     <<"S2", "D2">>, <<"D2", "U2">>, <<"S2", "U2">>}

get_sequential_cid_node_types ==
    (0 :> [D |-> <<"D1", "D2">>, U |-> <<"U1", "U2">>])

\* the constructor calls SpecReach starts from, of either class
ReachConstructions ==
    LET given == (ReachEdgeChoices \X ReachNodeTypeChoices)
                 \cup {<<get_sequential_cid_edges, get_sequential_cid_node_types>>}
    IN {MACIDBase(g[1], g[2]) : g \in given} \cup {MACID(g[1], g[2]) : g \in given}

\* a node name that no diagram of SpecReach holds
Absent == "X"

\* the node arguments of the calls on a diagram
NodeArgs(self) == self.nodes \cup {Absent}

\* the lists of nodes given to is_r_reachable
NodeListArgs(self) ==
    {<<v>> : v \in NodeArgs(self)}
    \cup {self.decision_nodes_agent[a] : a \in agents(self)}

\* the agent arguments of sufficient_recall: none, the agents 0 and 1, and an
\* identifier that is no agent of any diagram
AgentArgs == {None, 0, 1, 2}

InitReach ==
    /\ \E made \in ReachConstructions :
          /\ ~made.raised
          /\ cid = made.self
    /\ call = NoCall
    /\ ret = NoRet
    /\ ops = 0
    /\ edgeChanged = {}
    /\ supplied = <<>>

IsRReachable ==
    /\ call.op = "__init__"
    /\ \E decisions \in NodeListArgs(cid), nodes \in NodeListArgs(cid) :
          Called("is_r_reachable", <<decisions, nodes>>, is_r_reachable(cid, decisions, nodes))
    /\ ops' = ops + 1
    /\ UNCHANGED <<edgeChanged, supplied>>

IsSReachable ==
    /\ call.op = "__init__"
    /\ \E d1 \in NodeArgs(cid), d2 \in NodeArgs(cid) :
          Called("is_s_reachable", <<d1, d2>>, is_s_reachable(cid, d1, d2))
    /\ ops' = ops + 1
    /\ UNCHANGED <<edgeChanged, supplied>>

SufficientRecall ==
    /\ call.op = "__init__"
    /\ \E agent \in AgentArgs :
          Called("sufficient_recall", <<agent>>, sufficient_recall(cid, agent))
    /\ ops' = ops + 1
    /\ UNCHANGED <<edgeChanged, supplied>>

NextReach ==
    \/ IsRReachable
    \/ IsSReachable
    \/ SufficientRecall

SpecReach == InitReach /\ [][NextReach]_vars

-----------------------------------------------------------------------------
(* Specification SpecOpt: one optimisation call on a parameterised diagram *)

\* the values of the model, in sorted order
ValueOrder == <<0, 1, 2, 3>>

\* sorted(set(values))
SortedValues(values) == SelectSeq(ValueOrder, LAMBDA x : x \in values)

\* the functions the FunctionCPDs of the diagrams compute of their parents
Apply(f, parent_values) ==
    CASE f = "sum" -> SeqSum(parent_values)
      [] f = "product" -> SeqProduct(parent_values)
      [] f = "equal" -> IF \A i, j \in DOMAIN parent_values :
                               parent_values[i] = parent_values[j]
                        THEN 1 ELSE 0

\* FunctionCPD(variable, f, evidence) once the state names `domains` of the
\* evidence are known: the outputs of f listed as arg2idx indexes them, and
\* the state names the possible outputs
TabulatedFunctionCPD(variable, f, evidence, domains) ==
    LET card == [i \in DOMAIN evidence |-> Len(domains[i])]
        value(i, k) == domains[i][((k \div SeqProduct(SubSeq(card, 1, i - 1)))
                                   % card[i]) + 1]
        outputs == [k \in 1..SeqProduct(card) |->
                       Apply(f, [i \in DOMAIN evidence |-> value(i, k - 1)])]
    IN FunctionCPD(variable, outputs, evidence, SortedValues(Range(outputs)))

\* the kinds of CPD a node of a diagram is given
CpdKinds == {"DecisionDomain", "UniformRandomCPD", "sum", "product", "equal"}

\* the CPD of kind `kind` for node v of diagram `self`
CpdOfKind(self, v, kind) ==
    CASE kind = "DecisionDomain" -> DecisionDomain(v, Binary)
      [] kind = "UniformRandomCPD" -> UniformRandomCPD(v, Binary)
      [] OTHER ->
           LET evidence == AsList(get_parents(self, v))
           IN TabulatedFunctionCPD(v, kind, evidence,
                  [i \in DOMAIN evidence |-> self.cpds[evidence[i]].state_names])

\* the diagram constructed as `made`, and add_cpds for each node of `todo` in
\* turn with a CPD of the kind chosen for the node
RECURSIVE Parameterised(_, _, _)
Parameterised(made, kinds, todo) ==
    IF made.raised \/ todo = <<>> THEN made
    ELSE Parameterised(add_cpds(made.self,
                           <<CpdOfKind(made.self, Head(todo), kinds[Head(todo)])>>),
                       kinds, Tail(todo))

\* the edge lists of the diagrams of SpecOpt
OptEdgeChoices ==
    {edges \in SUBSET {<<"S1", "A">>, <<"S1", "U">>, <<"A", "B">>,
                       <<"A", "U">>, <<"B", "U">>} :
        \E e \in edges : e[2] = "U"}

\* the kinds of CPD that the nodes of the diagrams of SpecOpt are given
OptKindChoices ==
    {kinds \in [{"S1", "A", "B", "U"} -> CpdKinds] :
        /\ kinds["S1"] = "UniformRandomCPD"
        /\ kinds["A"] \in {"DecisionDomain", "product"}
        /\ kinds["B"] \in {"DecisionDomain", "UniformRandomCPD", "product"}
        /\ kinds["U"] \in {"sum", "product", "equal"}}

\* get_minimal_cid (examples/simple_cids.py): A -> B, B = A
get_minimal_cid ==
    LET made == MACIDBase({<<"A", "B">>}, (0 :> [D |-> <<"A">>, U |-> <<"B">>]))
        cpd_a == DecisionDomain("A", Binary)
        cpd_b == FunctionCPD("B", <<0, 1>>, <<"A">>, <<0, 1>>)
    IN add_cpds(made.self, <<cpd_a, cpd_b>>)

\* the diagrams SpecOpt starts from: the nodes are given their CPDs from
\* the roots on
OptConstructions ==
    {get_minimal_cid}
    \cup {Parameterised(MACIDBase(edges, node_types), kinds,
                         AsList({e[1] : e \in edges} \cup {e[2] : e \in edges}))
          : edges \in OptEdgeChoices, node_types \in NodeTypeChoices,
            kinds \in OptKindChoices}

\* the lists of decisions given to optimal_pure_strategies: lists of nodes
\* whose first node is no node of an agent without utility nodes
DecisionListArgs(self) ==
    {decisions \in {<<>>, <<"A">>, <<"B">>, <<"U">>, <<"A", "B">>, <<"B", "A">>} :
        (decisions # <<>> /\ decisions[1] \in DOMAIN self.whose_node)
            => self.utility_nodes_agent[self.whose_node[decisions[1]]] # <<>>}

InitOpt ==
    /\ \E made \in OptConstructions :
          /\ ~made.raised
          /\ made.self.cpds_to_add = <<>>
          /\ cid = made.self
    /\ call = NoCall
    /\ ret = NoRet
    /\ ops = 0
    /\ edgeChanged = {}
    /\ supplied = <<>>

\* the outcome `done` of optimal_pure_strategies, with the local macid kept
\* in ret for the claims about the diagram the strategies are compared on
CalledWithLocal(op, args, done) ==
    /\ cid' = done.self
    /\ call' = [op |-> op, args |-> args]
    /\ ret' = [raised |-> done.raised, value |-> done.value, macid |-> done.macid]

OptimalPureStrategies ==
    /\ call.op = "__init__"
    /\ \E decisions \in DecisionListArgs(cid) :
          CalledWithLocal("optimal_pure_strategies", <<decisions>>,
                          optimal_pure_strategies(cid, decisions))
    /\ ops' = ops + 1
    /\ UNCHANGED <<edgeChanged, supplied>>

OptimalPureDecisionRules ==
    /\ call.op = "__init__"
    /\ \E decisions \in DecisionListArgs(cid) :
          /\ Len(decisions) = 1
          /\ Called("optimal_pure_decision_rules", decisions,
                    optimal_pure_decision_rules(cid, decisions[1]))
    /\ ops' = ops + 1
    /\ UNCHANGED <<edgeChanged, supplied>>

NextOpt ==
    \/ OptimalPureStrategies
    \/ OptimalPureDecisionRules

SpecOpt == InitOpt /\ [][NextOpt]_vars

-----------------------------------------------------------------------------
(* Specification SpecRules: one enumeration call on a parameterised diagram *)

\* state names of three values
Ternary == <<0, 1, 2>>

\* a diagram like get_3node_cid (examples/simple_cids.py) over three values:
\* S1 -> A, S1 -> U, A -> U with the decision A and U = int(s1 == a)
get_3node_cid ==
    LET made == MACIDBase({<<"S1", "A">>, <<"S1", "U">>, <<"A", "U">>},
                          (0 :> [D |-> <<"A">>, U |-> <<"U">>]))
        cpd_s == UniformRandomCPD("S1", Ternary)
        cpd_d == DecisionDomain("A", Ternary)
        cpd_u == TabulatedFunctionCPD("U", "equal", <<"S1", "A">>, <<Ternary, Ternary>>)
    IN add_cpds(made.self, <<cpd_d, cpd_s, cpd_u>>)

\* a diagram whose decision B has two parents, of two and of three values:
\* S1 -> B, A -> B, B -> U with U = b
TwoParentCid ==
    LET made == MACIDBase({<<"S1", "B">>, <<"A", "B">>, <<"B", "U">>},
                          (0 :> [D |-> <<"B">>, U |-> <<"U">>]))
        cpd_s == UniformRandomCPD("S1", Binary)
        cpd_a == UniformRandomCPD("A", Ternary)
        cpd_b == DecisionDomain("B", Binary)
        cpd_u == FunctionCPD("U", <<0, 1>>, <<"B">>, Binary)
    IN add_cpds(made.self, <<cpd_s, cpd_a, cpd_b, cpd_u>>)

\* the diagrams SpecRules starts from
RulesConstructions == OptConstructions \cup {get_3node_cid, TwoParentCid}

\* the decision arguments of pure_decision_rules: the decisions of the
\* diagram, and a node that it does not hold
RuleArgs(self) == all_decision_nodes(self) \cup {Absent}

\* the lists of decisions given to pure_strategies
RuleListArgs(self) ==
    {<<>>} \cup {<<d>> : d \in RuleArgs(self)}
    \cup {<<d1, d2>> : d1 \in RuleArgs(self), d2 \in RuleArgs(self)}

InitRules ==
    /\ \E made \in RulesConstructions :
          /\ ~made.raised
          /\ made.self.cpds_to_add = <<>>
          /\ cid = made.self
    /\ call = NoCall
    /\ ret = NoRet
    /\ ops = 0
    /\ edgeChanged = {}
    /\ supplied = <<>>

PureDecisionRules ==
    /\ call.op = "__init__"
    /\ \E decision \in RuleArgs(cid) :
          Called("pure_decision_rules", <<decision>>, pure_decision_rules(cid, decision))
    /\ ops' = ops + 1
    /\ UNCHANGED <<edgeChanged, supplied>>

PureStrategies ==
    /\ call.op = "__init__"
    /\ \E decision_nodes \in RuleListArgs(cid) :
          Called("pure_strategies", <<decision_nodes>>, pure_strategies(cid, decision_nodes))
    /\ ops' = ops + 1
    /\ UNCHANGED <<edgeChanged, supplied>>

NextRules ==
    \/ PureDecisionRules
    \/ PureStrategies

SpecRules == InitRules /\ [][NextRules]_vars

-----------------------------------------------------------------------------
(* Specification SpecAdd: add_cpds calls on a constructed diagram, and its copies *)

\* the edge lists of the diagrams of SpecAdd
AddEdgeChoices ==
    { {<<"A", "B">>, <<"A", "U">>, <<"B", "U">>},
      {<<"A", "B">>, <<"B", "U">>},
      {<<"A", "U">>, <<"B", "U">>} }

\* the CPDs given for node v of the diagram: uniform over two or three state
\* names, a function of the graph parents, and the domain of a decision
SupplyChoices(self, v) ==
    {UniformRandomCPD(v, Binary), UniformRandomCPD(v, Ternary),
     FunctionCPD(v, <<>>, AsList(get_parents(self, v)), Binary),
     DecisionDomain(v, Binary)}

\* the argument lists of add_cpds: CPDs for different nodes
SupplyLists(self) ==
    {l \in ListsUpTo(UNION {SupplyChoices(self, v) : v \in self.nodes}, MaxCpds) :
        /\ l # <<>>
        /\ \A i, j \in DOMAIN l : i # j => l[i].variable # l[j].variable}

\* the history `given` after lines 97-105 stored the CPDs they did not reject
RECURSIVE SuppliedAfter(_, _, _)
SuppliedAfter(self, given, cpds) ==
    IF cpds = <<>> \/ RejectsCpd(self, Head(cpds)) THEN given
    ELSE SuppliedAfter(self, Put(given, Head(cpds).variable, Head(cpds)), Tail(cpds))

InitAdd ==
    /\ \E edges \in AddEdgeChoices, node_types \in NodeTypeChoices :
          /\ ~MACIDBase(edges, node_types).raised
          /\ cid = MACIDBase(edges, node_types).self
    /\ call = NoCall
    /\ ret = NoRet
    /\ ops = 0
    /\ edgeChanged = {}
    /\ supplied = <<>>

\* the nodes whose installed CPD has other state names in `after` than it
\* had in `before`
Renamed(before, after) ==
    {v \in DOMAIN before.cpds \cap DOMAIN after.cpds :
        before.cpds[v].state_names # after.cpds[v].state_names}

\* the call add_cpds(*cpds) ends as `done`; ret also keeps, as history, the
\* nodes whose installed state names the call changed
Supplying(cpds, done) ==
    /\ cid' = done.self
    /\ call' = [op |-> "add_cpds", args |-> cpds]
    /\ ret' = [raised |-> done.raised, value |-> done.value,
               renamed |-> Renamed(cid, done.self)]

\* add_cpds(*cpds); a sequence of calls ends with the call that raises
SupplyCpds ==
    /\ ops < MaxAdds
    /\ call.op \in {"__init__", "add_cpds"}
    /\ ~ret.raised
    /\ \E cpds \in SupplyLists(cid) :
          /\ Supplying(cpds, add_cpds(cid, cpds))
          /\ supplied' = SuppliedAfter(cid, supplied, cpds)
    /\ ops' = ops + 1
    /\ UNCHANGED edgeChanged

\* a call that returns the new diagram `made.self` and leaves self alone
Returned(op, made) ==
    /\ call' = [op |-> op, args |-> <<>>]
    /\ ret' = [raised |-> made.raised, value |-> made.self]
    /\ UNCHANGED cid

\* copy()
Copy ==
    /\ call.op \in {"__init__", "add_cpds"}
    /\ Returned("copy", copy(cid))
    /\ ops' = ops + 1
    /\ UNCHANGED <<edgeChanged, supplied>>

\* copy_without_cpds()
CopyWithoutCpds ==
    /\ call.op \in {"__init__", "add_cpds"}
    /\ Returned("copy_without_cpds", copy_without_cpds(cid))
    /\ ops' = ops + 1
    /\ UNCHANGED <<edgeChanged, supplied>>

NextAdd ==
    \/ SupplyCpds
    \/ Copy
    \/ CopyWithoutCpds

SpecAdd == InitAdd /\ [][NextAdd]_vars

-----------------------------------------------------------------------------
(* Specification SpecOwn: make_decision and make_chance calls on a            *)
(* parameterised diagram                                                     *)

\* make_decision and make_chance calls made on one diagram
MaxTurns == 3

\* the kinds of CPD that the nodes of the diagrams of SpecOwn are given
OwnKindChoices ==
    {kinds \in [{"S1", "A", "B", "U"} -> CpdKinds] :
        /\ kinds["S1"] = "UniformRandomCPD"
        /\ kinds["A"] \in {"DecisionDomain", "UniformRandomCPD"}
        /\ kinds["B"] \in {"DecisionDomain", "UniformRandomCPD", "product"}
        /\ kinds["U"] = "sum"}

\* the diagrams SpecOwn starts from
OwnConstructions ==
    {Parameterised(MACIDBase(edges, node_types), kinds,
                   AsList({e[1] : e \in edges} \cup {e[2] : e \in edges}))
        : edges \in AddEdgeChoices, node_types \in NodeTypeChoices,
          kinds \in OwnKindChoices}

InitOwn ==
    /\ \E made \in OwnConstructions :
          /\ ~made.raised
          /\ cid = made.self
    /\ call = NoCall
    /\ ret = NoRet
    /\ ops = 0
    /\ edgeChanged = {}
    /\ supplied = <<>>

MakeDecision ==
    /\ ops < MaxTurns
    /\ \E node \in Names \cup {Absent}, agent \in {0, 1, 2} :
          Called("make_decision", <<node, agent>>, make_decision(cid, node, agent))
    /\ ops' = ops + 1
    /\ UNCHANGED <<edgeChanged, supplied>>

MakeChance ==
    /\ ops < MaxTurns
    /\ \E node \in Names \cup {Absent} :
          Called("make_chance", <<node>>, make_chance(cid, node))
    /\ ops' = ops + 1
    /\ UNCHANGED <<edgeChanged, supplied>>

NextOwn ==
    \/ MakeDecision
    \/ MakeChance

SpecOwn == InitOwn /\ [][NextOwn]_vars

-----------------------------------------------------------------------------
(* Specification SpecRI: one response-incentive call on a diagram *)

\* the constructor calls SpecRI starts from: the diagrams of SpecReach of
\* class MACIDBase, of one agent and of two
RIConstructions ==
    {MACIDBase(edges, node_types) :
        edges \in ReachEdgeChoices, node_types \in ReachNodeTypeChoices}
    \cup {MACIDBase(get_sequential_cid_edges, get_sequential_cid_node_types)}

InitRI ==
    /\ \E made \in RIConstructions :
          /\ ~made.raised
          /\ cid = made.self
    /\ call = NoCall
    /\ ret = NoRet
    /\ ops = 0
    /\ edgeChanged = {}
    /\ supplied = <<>>

AdmitsRi ==
    /\ call.op = "__init__"
    /\ \E decision \in NodeArgs(cid), node \in NodeArgs(cid) :
          Called("admits_ri", <<decision, node>>, admits_ri(cid, decision, node))
    /\ ops' = ops + 1
    /\ UNCHANGED <<edgeChanged, supplied>>

AdmitsRiList ==
    /\ call.op = "__init__"
    /\ \E decision \in NodeArgs(cid) :
          Called("admits_ri_list", <<decision>>, admits_ri_list(cid, decision))
    /\ ops' = ops + 1
    /\ UNCHANGED <<edgeChanged, supplied>>

NextRI ==
    \/ AdmitsRi
    \/ AdmitsRiList

SpecRI == InitRI /\ [][NextRI]_vars

-----------------------------------------------------------------------------
(* Specification SpecRel: one strategic-relevance call on a MACID *)

\* the constructor calls SpecRel starts from: the diagrams of SpecReach of
\* class MACID
RelConstructions == {made \in ReachConstructions : made.self.class = "MACID"}

\* the decision subsets a relevance graph is built over: all the decisions
\* (the default), and the decisions of one agent
DecisionSubsets(self) ==
    {AsList(all_decision_nodes(self))}
    \cup {self.decision_nodes_agent[a] : a \in agents(self)}

InitRel ==
    /\ \E made \in RelConstructions :
          /\ ~made.raised
          /\ cid = made.self
    /\ call = NoCall
    /\ ret = NoRet
    /\ ops = 0
    /\ edgeChanged = {}
    /\ supplied = <<>>

StrategicRelGraph ==
    /\ call.op = "__init__"
    /\ Called("strategic_rel_graph", <<>>, strategic_rel_graph(cid))
    /\ ops' = ops + 1
    /\ UNCHANGED <<edgeChanged, supplied>>

IsStrategicallyAcyclic ==
    /\ call.op = "__init__"
    /\ Called("is_strategically_acyclic", <<>>, is_strategically_acyclic(cid))
    /\ ops' = ops + 1
    /\ UNCHANGED <<edgeChanged, supplied>>

\* the call `op` ends as `done`, whose value is the set of the values that
\* it may return: it returns one of them
CalledWithChoice(op, args, done) ==
    /\ cid' = done.self
    /\ call' = [op |-> op, args |-> args]
    /\ IF done.raised THEN ret' = [raised |-> TRUE, value |-> "None"]
       ELSE \E value \in done.value : ret' = [raised |-> FALSE, value |-> value]

GetAcyclicTopologicalOrdering ==
    /\ call.op = "__init__"
    /\ CalledWithChoice("get_acyclic_topological_ordering", <<>>,
                        get_acyclic_topological_ordering(cid))
    /\ ops' = ops + 1
    /\ UNCHANGED <<edgeChanged, supplied>>

Condense ==
    /\ call.op = "__init__"
    /\ \E decisions \in DecisionSubsets(cid) :
          Called("condense", <<decisions>>, CondensedRelevanceGraph(cid, decisions))
    /\ ops' = ops + 1
    /\ UNCHANGED <<edgeChanged, supplied>>

NextRel ==
    \/ StrategicRelGraph
    \/ IsStrategicallyAcyclic
    \/ GetAcyclicTopologicalOrdering
    \/ Condense

SpecRel == InitRel /\ [][NextRel]_vars

-----------------------------------------------------------------------------
(* Specification SpecDom: add_cpds, make_decision and make_chance calls on   *)
(* a parameterised diagram                                                   *)

\* add_cpds(cpd) with one CPD for a node of the diagram
GiveCpd ==
    /\ ops < MaxTurns
    /\ \E v \in cid.nodes :
          \E cpd \in SupplyChoices(cid, v) :
              Called("add_cpds", <<cpd>>, add_cpds(cid, <<cpd>>))
    /\ ops' = ops + 1
    /\ UNCHANGED <<edgeChanged, supplied>>

NextDom ==
    \/ GiveCpd
    \/ MakeDecision
    \/ MakeChance

SpecDom == InitOwn /\ [][NextDom]_vars

-----------------------------------------------------------------------------
(* Specification SpecMec: MechanismGraph(cid) of a constructed diagram *)

\* the edge lists of the diagrams of SpecMec: A -> U and any of six more
\* edges, among nodes whose names hold "mec"
MecEdgeChoices ==
    {{<<"A", "U">>} \cup more :
        more \in SUBSET {<<"S1", "A">>, <<"Amec", "A">>, <<"Amec", "U">>,
                         <<"mecano", "A">>, <<"mecano", "U">>, <<"mecmec", "U">>}}

InitMec ==
    /\ \E edges \in MecEdgeChoices, node_types \in NodeTypeChoices :
          /\ ~MACIDBase(edges, node_types).raised
          /\ cid = MACIDBase(edges, node_types).self
    /\ call = NoCall
    /\ ret = NoRet
    /\ ops = 0
    /\ edgeChanged = {}
    /\ supplied = <<>>

\* mg = MechanismGraph(cid)
BuildMechanismGraph ==
    /\ call.op = "__init__"
    /\ Returned("MechanismGraph", MechanismGraph(cid))
    /\ ops' = ops + 1
    /\ UNCHANGED <<edgeChanged, supplied>>

NextMec == BuildMechanismGraph

SpecMec == InitMec /\ [][NextMec]_vars

-----------------------------------------------------------------------------
(* Claims checked under Spec *)

\* the dependency set a CPD declares: the evidence of a FunctionCPD, the
\* parents an initialized uniform table is over
DependencySet(cpd) ==
    IF IsFunctionCPD(cpd) THEN Range(cpd.evidence) ELSE Range(cpd.variables)

\* some FunctionCPD of the last add_cpds call declares evidence that differs
\* from the graph parents of its node (add_cpds leaves the graph as it is)
GivenMismatch ==
    /\ call.op = "add_cpds"
    /\ \E i \in DOMAIN call.args :
          /\ IsFunctionCPD(call.args[i])
          /\ Range(call.args[i].evidence) # get_parents(cid, call.args[i].variable)

\* C1: add_cpds raises whenever one of the given FunctionCPDs declares an
\* evidence set that differs from the current graph parents of its node.
C1_MismatchRaises == GivenMismatch => ret.raised

\* C1 witness: a call whose first CPD is accepted and whose second CPD is a
\* FunctionCPD for a node with parents, declaring other evidence
C1_Witness ==
    /\ GivenMismatch
    /\ Len(call.args) = 2
    /\ ~IsFunctionCPD(call.args[1])
    /\ get_parents(cid, call.args[2].variable) # {}
    /\ call.args[1].variable \in DOMAIN cid.cpds_to_add
    /\ ret.raised

WithoutPolicy ==
    {d \in all_decision_nodes(cid) :
        ~HasCpd(cid, d) \/ cid.cpds[d].kind = "DecisionDomain"}

\* the decisions whose mechanism node is d-connected to a target of the last
\* query given its context
RelevantDecisions ==
    {d \in all_decision_nodes(cid) :
        \E t \in Range(call.args[1]) :
            t \in active_trail_nodes(MechanismGraph(cid).self, d \o "mec",
                                     DOMAIN call.args[2])}

\* C3: query fails, returning no distribution, whenever a decision whose
\* mechanism node has an active trail to a target given the context has no
\* policy or only a DecisionDomain.
C3_QueryNeedsPolicies ==
    (/\ call.op = "query"
     /\ DOMAIN call.args[2] \subseteq cid.nodes
     /\ ~MechanismGraph(cid).raised
     /\ RelevantDecisions \cap WithoutPolicy # {})
    => ret.raised /\ ret.value # "factor"

\* C3 witness: a failed query on a target that every other check accepts,
\* relevant to a decision with an installed DecisionDomain
C3_Witness ==
    /\ call.op = "query"
    /\ call.args[2] = <<>>
    /\ ~MechanismGraph(cid).raised
    /\ \E d \in RelevantDecisions : HasCpd(cid, d) /\ cid.cpds[d].kind = "DecisionDomain"
    /\ \A v \in cid.nodes \ WithoutPolicy : HasCpd(cid, v) /\ cid.cpds[v].values
    /\ ret.raised

\* C4: a query with a hard intervention leaves the caller's diagram (nodes,
\* edges, ownership, installed and pending policies) as it was.
C4_QueryLeavesDiagram ==
    [][(call'.op = "query" /\ ops' = ops + 1 /\ call'.args[3] # <<>>) => cid' = cid]_vars

\* C4 witness: a query under an intervention has returned a distribution and
\* the intervened variable still has its uniform or functional policy
C4_Witness ==
    /\ call.op = "query"
    /\ call.args[3] # <<>>
    /\ ~ret.raised
    /\ ret.value = "factor"
    /\ \A v \in DOMAIN call.args[3] :
          HasCpd(cid, v) /\ cid.cpds[v].state_names = Binary

-----------------------------------------------------------------------------
(* Claims checked under SpecReach *)

\* g with a hypothetical new parent of node v
WithNewParent(g, v) ==
    [nodes |-> g.nodes \cup {"new_parent", v},
     edges |-> g.edges \cup {<<"new_parent", v>>}]

\* S and the ancestors of the nodes of S in g
RECURSIVE AncestralSet(_, _)
AncestralSet(g, S) ==
    LET more == S \cup {e[1] : e \in {f \in g.edges : f[2] \in S}}
    IN IF more = S THEN S ELSE AncestralSet(g, more)

\* the nodes joined to those of S in the moral graph of g restricted to
\* `within`, on paths that avoid `given`
RECURSIVE MoralComponent(_, _, _, _)
MoralComponent(g, within, given, S) ==
    LET adjacent(u, v) ==
            \/ <<u, v>> \in g.edges
            \/ <<v, u>> \in g.edges
            \/ \E c \in within : <<u, c>> \in g.edges /\ <<v, c>> \in g.edges
        more == S \cup {v \in within \ given : \E u \in S : adjacent(u, v)}
    IN IF more = S THEN S ELSE MoralComponent(g, within, given, more)

\* x and y are d-connected in g given the set `given`: they are joined in
\* the moral graph of the ancestral set of {x, y} and `given`, off `given`
DConnected(g, x, y, given) ==
    /\ x \notin given
    /\ y \notin given
    /\ y \in MoralComponent(g, AncestralSet(g, {x, y} \cup given), given, {x})

\* the r-reachability predicate: some decision D of `decisions`, node V of
\* `nodes` and utility U of D's agent that descends from D, with a new
\* parent of V d-connected to U given D and the parents of D
RReachable(self, decisions, nodes) ==
    \E D \in Range(decisions), V \in Range(nodes) :
        \E U \in Range(self.utility_nodes_agent[self.whose_node[D]])
                 \cap descendants(self, D) :
            DConnected(WithNewParent(self, V), "new_parent", U,
                       {D} \cup get_parents(self, D))

\* the relevance graph on `decisions`: an edge D -> D2 iff D2 is s-reachable
\* from D, and its acyclicity
SReachableEdges(self, decisions) ==
    {pair \in Range(decisions) \X Range(decisions) :
        pair[1] # pair[2] /\ RReachable(self, <<pair[1]>>, <<pair[2]>>)}

RecallHolds(self, agent) ==
    IsDag(Range(self.decision_nodes_agent[agent]),
          SReachableEdges(self, self.decision_nodes_agent[agent]))

\* C5: a call of is_r_reachable that returns, returns whether the
\* r-reachability predicate holds of its arguments, and a call of
\* is_s_reachable(D1, D2) on two decisions returns that predicate of <<D1>>
\* and <<D2>>, whichever class of diagram it is called on
C5_ReachabilityPredicate ==
    [][/\ (call'.op = "is_r_reachable" /\ ~ret'.raised)
            => ret'.value = Bool(RReachable(cid, call'.args[1], call'.args[2]))
       /\ (/\ call'.op = "is_s_reachable"
           /\ ~ret'.raised
           /\ {call'.args[1], call'.args[2]} \subseteq all_decision_nodes(cid))
            => ret'.value = Bool(RReachable(cid, <<call'.args[1]>>,
                                            <<call'.args[2]>>))]_vars

\* C6: a call of is_r_reachable or is_s_reachable, returning or raising,
\* leaves the nodes, the edges and the CPDs of the diagram as they were
C6_ReachabilityLeavesDiagram ==
    [][call'.op \in {"is_r_reachable", "is_s_reachable"}
          => /\ cid'.nodes = cid.nodes
             /\ cid'.edges = cid.edges
             /\ cid'.cpds = cid.cpds]_vars

\* C7: is_s_reachable(D1, D2) raises when D2 is no decision node of the
\* diagram
C7_NonDecisionTargetRaises ==
    (call.op = "is_s_reachable" /\ call.args[2] \notin all_decision_nodes(cid))
        => ret.raised

\* C8: sufficient_recall() returns, and returns True iff for every agent the
\* relevance graph on the agent's decisions is acyclic
C8_RecallOfAllAgents ==
    (call.op = "sufficient_recall" /\ call.args[1] = None)
        => /\ ~ret.raised
           /\ ret.value = Bool(\A a \in agents(cid) : RecallHolds(cid, a))

\* C9: sufficient_recall(a) for an agent a of the diagram returns True iff
\* the relevance graph on the decisions of a is acyclic, and raises for an
\* identifier that is no agent of the diagram
C9_RecallOfOneAgent ==
    (call.op = "sufficient_recall" /\ call.args[1] # None)
        => IF call.args[1] \in agents(cid)
           THEN ~ret.raised /\ ret.value = Bool(RecallHolds(cid, call.args[1]))
           ELSE ret.raised

-----------------------------------------------------------------------------
(* Claims checked under SpecOpt *)

\* the state names of node v
DomainOf(self, v) == Range(self.cpds[v].state_names)

\* the decision contexts of decision d: the assignments of values to its parents
DecisionContexts(self, d) ==
    {c \in [get_parents(self, d) -> UNION {DomainOf(self, p) : p \in get_parents(self, d)}] :
        \A p \in get_parents(self, d) : c[p] \in DomainOf(self, p)}

\* the pure decision rules at d: the functions from its contexts to its domain
RulesAt(self, d) == [DecisionContexts(self, d) -> DomainOf(self, d)]

\* the joint pure strategies over the decisions: a rule for each of them
JointStrategies(self, decisions) ==
    {s \in [Range(decisions) -> UNION {RulesAt(self, d) : d \in Range(decisions)}] :
        \A d \in Range(decisions) : s[d] \in RulesAt(self, d)}

\* the assignments of values to the nodes that are possible when the
\* decisions follow the joint strategy s: the other nodes with a FunctionCPD
\* take its output, the remaining nodes any value of their domain
Outcomes(self, s) ==
    {a \in [self.nodes -> UNION {DomainOf(self, v) : v \in self.nodes}] :
        /\ \A v \in self.nodes : a[v] \in DomainOf(self, v)
        /\ \A v \in self.nodes :
              IF v \in DOMAIN s
              THEN a[v] = s[v][[p \in get_parents(self, v) |-> a[p]]]
              ELSE IsFunctionCPD(self.cpds[v])
                      => a[v] = FunctionValue(self, self.cpds[v], a)}

\* the sum over the outcomes of strategy s of the agent's total utility:
\* the outcomes of a strategy are equally probable and as many for each
\* strategy, so that this orders the strategies as their expected utility does
TotalUtility(self, s, agent) ==
    FunctionSum([a \in Outcomes(self, s) |->
        SeqSum([i \in DOMAIN self.utility_nodes_agent[agent] |->
                   a[self.utility_nodes_agent[agent][i]]])])

\* the joint strategies of maximal expected utility
BestStrategies(self, decisions, agent) ==
    {s \in JointStrategies(self, decisions) :
        \A t \in JointStrategies(self, decisions) :
            TotalUtility(self, t, agent) <= TotalUtility(self, s, agent)}

\* the function from contexts to outputs that a returned FunctionCPD computes
RuleOf(self, cpd) ==
    [c \in DecisionContexts(self, cpd.variable) |->
        FunctionValue(self, cpd, c)]

\* a returned strategy, a list of FunctionCPDs, as a joint strategy
StrategyOf(self, strategy) ==
    [d \in {strategy[i].variable : i \in DOMAIN strategy} |->
        RuleOf(self, strategy[CHOOSE i \in DOMAIN strategy : strategy[i].variable = d])]

\* the call of the state is optimal_pure_strategies on a non-empty list of
\* distinct decisions, and has returned
OptimisationReturned ==
    /\ call.op = "optimal_pure_strategies"
    /\ call.args[1] # <<>>
    /\ Cardinality(Range(call.args[1])) = Len(call.args[1])
    /\ ~ret.raised

\* C10: optimal_pure_strategies(decisions) returns, each once, the joint pure
\* strategies over the decisions whose expected utility for the agent is the
\* maximum over all joint pure strategies, so at least one; on the diagram
\* A -> B with B = A, optimal_pure_decision_rules("A") returns the one rule
\* that outputs 1
C10_OptimalStrategies ==
    /\ OptimisationReturned =>
          LET decisions == call.args[1]
              agent == cid.whose_node[decisions[1]]
              returned == {StrategyOf(cid, ret.value[k]) : k \in DOMAIN ret.value}
          IN /\ returned = BestStrategies(cid, decisions, agent)
             /\ Cardinality(returned) = Len(ret.value)
             /\ ret.value # <<>>
    /\ (/\ cid = get_minimal_cid.self
        /\ call.op = "optimal_pure_decision_rules"
        /\ call.args = <<"A">>)
          => /\ ~ret.raised
             /\ Len(ret.value) = 1
             /\ ret.value[1].function = <<1>>

\* a call on two decisions has returned several optimal strategies, and not
\* all the strategies there are
C10_Witness ==
    /\ OptimisationReturned
    /\ Len(call.args[1]) = 2
    /\ Len(ret.value) > 1
    /\ Len(ret.value) < Cardinality(JointStrategies(cid, call.args[1]))

\* C11: optimal_pure_strategies, and optimal_pure_decision_rules that calls
\* it, leave the diagram they are called on as it was: the same nodes and
\* edges, the same decision and utility nodes of every agent, and the same
\* installed and pending CPDs (a decision that held its DecisionDomain only
\* still holds it), whether the call returns or raises.
C11_OptimisationLeavesDiagram ==
    [][call'.op \in {"optimal_pure_strategies", "optimal_pure_decision_rules"}
          => /\ cid'.nodes = cid.nodes
             /\ cid'.edges = cid.edges
             /\ cid'.decision_nodes_agent = cid.decision_nodes_agent
             /\ cid'.utility_nodes_agent = cid.utility_nodes_agent
             /\ cid'.whose_node = cid.whose_node
             /\ cid'.cpds = cid.cpds
             /\ cid'.cpds_to_add = cid.cpds_to_add]_vars

\* a call has returned optimal strategies that it compared on a copy holding
\* other CPDs than the caller's diagram, in which a decision of the call still
\* holds its DecisionDomain
C11_Witness ==
    /\ OptimisationReturned
    /\ ret.value # <<>>
    /\ ret.macid # <<>>
    /\ ret.macid[1].cpds # cid.cpds
    /\ \E d \in Range(call.args[1]) : IsDecisionDomain(cid.cpds[d])

-----------------------------------------------------------------------------
(* Claims checked under SpecRules *)

\* base to the power of exponent
RECURSIVE Power(_, _)
Power(base, exponent) ==
    IF exponent = 0 THEN 1 ELSE base * Power(base, exponent - 1)

\* the rules of a returned list, as functions from contexts to actions
RulesOf(self, rules) == {RuleOf(self, rules[k]) : k \in DOMAIN rules}

\* the profiles of a returned list, as lists of such functions
ProfilesOf(self, profiles) ==
    {[i \in DOMAIN profiles[k] |-> RuleOf(self, profiles[k][i])] : k \in DOMAIN profiles}

\* C12: pure_decision_rules(d) returns |domain(d)| ^ (number of parent-value
\* combinations of d) decision rules for d, declared over the parents of d,
\* pairwise different as functions from parent-value tuples to actions, so
\* that every such function is enumerated exactly once; pure_strategies over
\* a list of decisions returns the Cartesian product of these enumerations:
\* as many profiles as the product of the numbers of rules, pairwise
\* different, each holding one rule of each listed decision in the order of
\* the list.
C12_EnumerationComplete ==
    /\ (call.op = "pure_decision_rules" /\ ~ret.raised) =>
          LET d == call.args[1]
          IN /\ Len(ret.value) = Power(Cardinality(DomainOf(cid, d)),
                                       Cardinality(DecisionContexts(cid, d)))
             /\ \A k \in DOMAIN ret.value :
                   /\ IsFunctionCPD(ret.value[k])
                   /\ ret.value[k].variable = d
                   /\ Range(ret.value[k].evidence) = get_parents(cid, d)
             /\ Cardinality(RulesOf(cid, ret.value)) = Len(ret.value)
             /\ RulesOf(cid, ret.value) = RulesAt(cid, d)
    /\ (call.op = "pure_strategies" /\ ~ret.raised) =>
          LET decision_nodes == call.args[1]
          IN /\ Len(ret.value) =
                   SeqProduct([i \in DOMAIN decision_nodes |->
                                  Cardinality(RulesAt(cid, decision_nodes[i]))])
             /\ \A k \in DOMAIN ret.value :
                   /\ Len(ret.value[k]) = Len(decision_nodes)
                   /\ \A i \in DOMAIN decision_nodes :
                         /\ ret.value[k][i].variable = decision_nodes[i]
                         /\ RuleOf(cid, ret.value[k][i]) \in RulesAt(cid, decision_nodes[i])
             /\ Cardinality(ProfilesOf(cid, ret.value)) = Len(ret.value)

\* the rules of a decision with a parent of two and a parent of three values
\* have been enumerated
C12_Witness ==
    /\ call.op = "pure_decision_rules"
    /\ ~ret.raised
    /\ Cardinality(get_parents(cid, call.args[1])) = 2
    /\ Len(ret.value) = 64

-----------------------------------------------------------------------------
(* Claims checked under SpecAdd *)

\* the CPDs x and y are the same policy: of the same class, for the same
\* node, with the same state names, declared parents and function
SameCpd(x, y) ==
    /\ x.kind = y.kind
    /\ x.variable = y.variable
    /\ x.state_names = y.state_names
    /\ x.evidence = y.evidence
    /\ x.function = y.function

\* diagram y has the nodes, the edges and the decision and utility nodes of
\* every agent that diagram x has
SameStructure(x, y) ==
    /\ y.nodes = x.nodes
    /\ y.edges = x.edges
    /\ y.decision_nodes_agent = x.decision_nodes_agent
    /\ y.utility_nodes_agent = x.utility_nodes_agent

\* C13: on a constructed diagram, after any add_cpds calls, copy() returns a
\* diagram with the same nodes, edges, decision and utility nodes of every
\* agent, and the same installed policy at every node that has one (and at no
\* other node); copy_without_cpds() returns a diagram with the same structure
\* and ownership and no policy; neither call raises.
C13_CopyEqualsOriginal ==
    /\ call.op = "copy" =>
          /\ ~ret.raised
          /\ SameStructure(cid, ret.value)
          /\ DOMAIN ret.value.cpds = DOMAIN cid.cpds
          /\ \A v \in DOMAIN cid.cpds : SameCpd(ret.value.cpds[v], cid.cpds[v])
          /\ ret.value.cpds_to_add = <<>>
    /\ call.op = "copy_without_cpds" =>
          /\ ~ret.raised
          /\ SameStructure(cid, ret.value)
          /\ ret.value.cpds = <<>>
          /\ ret.value.cpds_to_add = <<>>

\* a diagram with a policy installed at every node, one of them installed
\* again after the state names of its parent changed, has been copied
C13_Witness ==
    /\ call.op = "copy"
    /\ DOMAIN cid.cpds = cid.nodes
    /\ \E e \in cid.edges :
          /\ Len(cid.cpds[e[1]].state_names) = 3
          /\ IsFunctionCPD(cid.cpds[e[2]])
    /\ DOMAIN ret.value.cpds = cid.nodes

\* a call of add_cpds has returned, so that `supplied` holds for each node
\* the CPD most recently given for it
Supplied == call.op = "add_cpds" /\ ~ret.raised

\* C20: after an add_cpds call that returns, each node that has been given a
\* CPD has the most recently given one installed and nothing pending if each
\* of its parents has an installed CPD, and has it pending in cpds_to_add
\* otherwise; so once every node has been given a CPD, in whatever order
\* within a call or across calls, cpds_to_add is empty and every node has
\* its most recently given CPD installed and initialized.
C20_PendingUntilInstallable ==
    Supplied =>
        /\ \A v \in DOMAIN supplied :
              IF \A p \in get_parents(cid, v) : HasCpd(cid, p)
              THEN /\ v \notin DOMAIN cid.cpds_to_add
                   /\ HasCpd(cid, v)
                   /\ SameCpd(cid.cpds[v], supplied[v])
                   /\ cid.cpds[v].values
              ELSE /\ v \in DOMAIN cid.cpds_to_add
                   /\ SameCpd(cid.cpds_to_add[v], supplied[v])
        /\ DOMAIN supplied = cid.nodes
              => /\ cid.cpds_to_add = <<>>
                 /\ DOMAIN cid.cpds = cid.nodes
                 /\ \A v \in cid.nodes :
                       SameCpd(cid.cpds[v], supplied[v]) /\ cid.cpds[v].values

\* every node has been given a CPD in two calls, the second giving one CPD,
\* for the parent of a node given a FunctionCPD in the first: that CPD was
\* pending after the first call and is installed by the second
C20_Witness ==
    /\ Supplied
    /\ ops = 2
    /\ Len(call.args) = 1
    /\ DOMAIN supplied = cid.nodes
    /\ cid.cpds_to_add = <<>>
    /\ DOMAIN cid.cpds = cid.nodes
    /\ \E e \in cid.edges :
          /\ call.args[1].variable = e[1]
          /\ IsFunctionCPD(cid.cpds[e[2]])

\* the installed CPD of node v is initialized over the state names that
\* the parents of its table have now
UpToDate(self, v) ==
    /\ self.cpds[v].values
    /\ self.cpds[v].evidence_names =
           [i \in DOMAIN self.cpds[v].variables |->
               self.cpds[self.cpds[v].variables[i]].state_names]

\* C21: when an add_cpds call that returns has installed on a node a CPD
\* whose state names differ from those of the CPD the node had installed
\* before, every descendant of the node that has an installed CPD is
\* pending no longer and its table is computed over the state names its
\* parents have on return.
C21_DescendantsRecomputed ==
    [][(call'.op = "add_cpds" /\ ~ret'.raised)
          => \A var \in Renamed(cid, cid') :
                \A d \in descendants(cid', var) :
                    HasCpd(cid', d)
                        => d \notin DOMAIN cid'.cpds_to_add /\ UpToDate(cid', d)]_vars

\* a call that gave a CPD for one node only has changed the installed state
\* names of that node, which has a child and a grandchild that hold
\* installed CPDs computed before the call
C21_Witness ==
    /\ Supplied
    /\ Len(call.args) = 1
    /\ ret.renamed = {call.args[1].variable}
    /\ \E child, grandchild \in DOMAIN cid.cpds :
          /\ <<call.args[1].variable, child>> \in cid.edges
          /\ <<child, grandchild>> \in cid.edges
          /\ IsFunctionCPD(cid.cpds[child])
          /\ cid.cpds[child].evidence_names[1] = call.args[1].state_names

\* C24: an add_cpds call that raises because it rejects one of the given
\* CPDs leaves the diagram as it was: the installed CPDs and the pending
\* table cpds_to_add are those of before the call.
C24_FailedAddLeavesDiagram ==
    [][(call'.op = "add_cpds" /\ ret'.raised)
          => /\ cid'.cpds = cid.cpds
             /\ cid'.cpds_to_add = cid.cpds_to_add]_vars

-----------------------------------------------------------------------------
(* Claims checked under SpecOwn *)

\* C14: after construction and after any sequence of make_decision and
\* make_chance calls, whose_node is the inverse of the ownership mappings:
\* whose_node[n] = a exactly when n is a decision node or a utility node of
\* agent a (so that every decision and utility node has one owner and a
\* chance node has no entry), and no node is twice in an agent's decisions.
C14_WhoseNodeIsInverse ==
    /\ \A n \in cid.nodes \cup DOMAIN cid.whose_node, a \in agents(cid) :
          (n \in DOMAIN cid.whose_node /\ cid.whose_node[n] = a)
              <=> n \in Range(cid.decision_nodes_agent[a])
                        \cup Range(cid.utility_nodes_agent[a])
    /\ \A n \in DOMAIN cid.whose_node : cid.whose_node[n] \in agents(cid)
    /\ \A a \in agents(cid) :
          Cardinality(Range(cid.decision_nodes_agent[a]))
              = Len(cid.decision_nodes_agent[a])

-----------------------------------------------------------------------------
(* Claims checked under SpecRI *)

\* the diagram has one agent, and sufficient recall holds of it
Admissible(self) ==
    /\ Cardinality(agents(self)) = 1
    /\ \A a \in agents(self) : RecallHolds(self, a)

\* C15 as stated: on every diagram, for every decision of it, admits_ri with
\* node equal to the decision returns False
C15_Original ==
    (/\ call.op = "admits_ri"
     /\ call.args[1] = call.args[2]
     /\ call.args[1] \in all_decision_nodes(cid))
        => ~ret.raised /\ ret.value = "False"

\* C15: admits_ri with node equal to decision never returns True: on a
\* diagram of one agent with sufficient recall that holds the node it returns
\* False, and on every other diagram it raises; admits_ri_list(decision)
\* never lists the decision itself.
C15_NeverOnDecisionItself ==
    /\ (call.op = "admits_ri" /\ call.args[1] = call.args[2])
          => IF Admissible(cid) /\ call.args[1] \in cid.nodes
             THEN ~ret.raised /\ ret.value = "False"
             ELSE ret.raised
    /\ (call.op = "admits_ri_list" /\ ~ret.raised)
          => call.args[1] \notin Range(ret.value)

\* admits_ri(D, D) has returned False for a decision D that has a parent in
\* the requisite graph, and so a directed path to itself as
\* find_all_dir_paths finds them
C15_Witness ==
    /\ call.op = "admits_ri"
    /\ call.args[1] = call.args[2]
    /\ call.args[1] \in all_decision_nodes(cid)
    /\ ~ret.raised
    /\ ret.value = "False"
    /\ get_parents(requisite_graph(cid), call.args[1]) # {}

\* C16: admits_ri(cid, decision, node) raises if node or decision is no node
\* of the diagram, if the diagram has more than one agent, or if sufficient
\* recall does not hold; otherwise, for node different from decision, it
\* returns True iff the requisite graph has a directed path from node to
\* decision.
C16_ResponseIncentive ==
    call.op = "admits_ri" =>
        LET decision == call.args[1]
            node == call.args[2]
        IN IF \/ node \notin cid.nodes
              \/ decision \notin cid.nodes
              \/ ~Admissible(cid)
           THEN ret.raised
           ELSE /\ ~ret.raised
                /\ node # decision =>
                      ret.value = Bool(decision \in ReachableFrom(requisite_graph(cid),
                                                                  {node}))

\* admits_ri has returned True for a node, on a diagram whose requisite
\* graph lacks an edge of the diagram
C16_Witness ==
    /\ call.op = "admits_ri"
    /\ ~ret.raised
    /\ ret.value = "True"
    /\ requisite_graph(cid).edges # cid.edges

-----------------------------------------------------------------------------
(* Claims checked under SpecRel *)

\* C17: the condensation of the relevance graph built over the decisions of
\* a diagram, cyclic or not, is acyclic; every decision the graph is over
\* belongs to exactly one component; and a topological order of the
\* components exists.
C17_CondensationIsDag ==
    call.op = "condense" =>
        /\ ~ret.raised
        /\ IsDag(ret.value.nodes, ret.value.edges)
        /\ \A d \in Range(call.args[1]) :
              Cardinality({c \in ret.value.nodes : d \in c}) = 1
        /\ UNION ret.value.nodes = Range(call.args[1])
        /\ TopologicalSorts(ret.value) # {}

\* a cyclic relevance graph over three decisions has been condensed into
\* more than one component, one of them of several decisions
C17_Witness ==
    /\ call.op = "condense"
    /\ ~ret.raised
    /\ Len(call.args[1]) = 3
    /\ Cardinality(ret.value.nodes) > 1
    /\ \E c \in ret.value.nodes : Cardinality(c) > 1

\* the position of node d in the list `order` (0 when it is not in it)
PositionIn(order, d) ==
    IF d \in Range(order) THEN CHOOSE i \in DOMAIN order : order[i] = d ELSE 0

\* C19: strategic_rel_graph has an edge D -> D2 exactly for the ordered
\* pairs of distinct decisions where D2 is s-reachable from D; when that
\* graph is acyclic, get_acyclic_topological_ordering returns a list holding
\* every decision of the diagram exactly once, with D before D2 for every
\* edge D -> D2, and when it is cyclic the call fails.
C19_StrategicOrdering ==
    LET decisions == all_decision_nodes(cid)
        edges == SReachableEdges(cid, AsList(decisions))
    IN /\ call.op = "strategic_rel_graph"
             => ~ret.raised /\ ret.value.edges = edges
       /\ call.op = "get_acyclic_topological_ordering"
             => IF IsDag(decisions, edges)
                THEN /\ ~ret.raised
                     /\ Range(ret.value) = decisions
                     /\ Len(ret.value) = Cardinality(decisions)
                     /\ \A e \in edges :
                           PositionIn(ret.value, e[1]) < PositionIn(ret.value, e[2])
                ELSE ret.raised

-----------------------------------------------------------------------------
(* Claims checked under SpecOpt: the diagram the strategies are compared on *)

\* the decisions of the diagram outside the list given to the call whose
\* strategies have been compared, split by r-reachability from the list
ComparedOn == call.op = "optimal_pure_strategies" /\ ret.macid # <<>>

OtherDecisions == all_decision_nodes(cid) \ Range(call.args[1])

Neutralised == {d \in OtherDecisions : ~RReachable(cid, call.args[1], <<d>>)}

\* C18 as stated: while optimal_pure_strategies(decisions) compares the
\* strategies, every decision outside the list that is not r-reachable from
\* it carries a uniform-random policy, whatever it carried before the call.
C18_Original ==
    ComparedOn =>
        \A d \in Neutralised : ret.macid[1].cpds[d].kind = "UniformRandomCPD"

\* C18: while optimal_pure_strategies(decisions) compares the strategies on
\* its copy, every decision outside the list that is not r-reachable from it
\* and held a DecisionDomain placeholder before the call carries a
\* uniform-random policy over the same domain; one that held a policy before
\* the call still carries that policy, as does every decision outside the
\* list that is r-reachable from it.
C18_ImputedWherePlaceholder ==
    ComparedOn =>
        /\ \A d \in Neutralised :
              IF IsDecisionDomain(cid.cpds[d])
              THEN SameCpd(ret.macid[1].cpds[d],
                           UniformRandomCPD(d, cid.cpds[d].state_names))
              ELSE SameCpd(ret.macid[1].cpds[d], cid.cpds[d])
        /\ \A d \in OtherDecisions \ Neutralised :
              SameCpd(ret.macid[1].cpds[d], cid.cpds[d])

\* optimal strategies have been returned after a comparison in which a
\* decision outside the list, not r-reachable from it, carried a
\* uniform-random policy in place of its DecisionDomain
C18_Witness ==
    /\ ComparedOn
    /\ ~ret.raised
    /\ ret.value # <<>>
    /\ \E d \in Neutralised :
          /\ IsDecisionDomain(cid.cpds[d])
          /\ ret.macid[1].cpds[d].kind = "UniformRandomCPD"

-----------------------------------------------------------------------------
(* Claims checked under SpecMec *)

\* the name ends with "mec"
EndsWithMec(node) ==
    Len(node) >= 3 /\ SubSeq(node, Len(node) - 2, Len(node)) = "mec"

\* C22: where MechanismGraph(cid) succeeds, the mechanism graph has all the
\* nodes and edges of cid and, for each node X of cid, a node X + "mec" that
\* is no node of cid, has no parents and has X as its only child; the
\* construction fails when the name of a node of cid ends with "mec" (and
\* only then); cid is left as it was.
C22_MechanismGraph ==
    call.op = "MechanismGraph" =>
        /\ ret.raised <=> \E X \in cid.nodes : EndsWithMec(X)
        /\ ~ret.raised =>
              /\ cid.nodes \subseteq ret.value.nodes
              /\ cid.edges \subseteq ret.value.edges
              /\ \A X \in cid.nodes :
                    /\ (X \o "mec") \in ret.value.nodes \ cid.nodes
                    /\ get_parents(ret.value, X \o "mec") = {}
                    /\ get_children(ret.value, X \o "mec") = {X}

-----------------------------------------------------------------------------
(* Claims checked under SpecDom *)

\* C23: after construction and after any sequence of add_cpds,
\* make_decision and make_chance calls, every node that holds a
\* DecisionDomain, installed in cpds or pending in cpds_to_add, is a
\* decision node of some agent.
C23_DomainOnlyOnDecisions ==
    /\ \A v \in DOMAIN cid.cpds :
          IsDecisionDomain(cid.cpds[v]) => v \in all_decision_nodes(cid)
    /\ \A v \in DOMAIN cid.cpds_to_add :
          IsDecisionDomain(cid.cpds_to_add[v]) => v \in all_decision_nodes(cid)

=============================================================================
